---- MODULE Spec2Model ----
(***************************************************************************)
(* Gray-Scott reaction-diffusion studio: the field engine                  *)
(* (simulation/grayScott.ts) and the simulation loop built on it           *)
(* (hooks/useReactionDiffusion.ts, driven by App.tsx).                     *)
(*                                                                         *)
(* Numbers.  A JavaScript number is modelled as a fixed-point integer, One *)
(* units to 1.0, inside [-MaxDouble, MaxDouble]; a result beyond that      *)
(* range overflows to PosInf / NegInf and the IEEE-754 special cases       *)
(* (Infinity * 0, Infinity - Infinity, every operation on NaN) give NaN.   *)
(* A Float32Array element overflows at the narrower MaxFloat.              *)
(*                                                                         *)
(* React.  setState only records the new value; the component re-renders   *)
(* later (Render) and the passive effects of that render run later still   *)
(* (FlushEffects).  Host callbacks (animation frames, timers, visibility   *)
(* events) and calls of the hook's operations may happen in between.  A    *)
(* callback keeps the values of the render that created it.                *)
(***************************************************************************)
EXTENDS Integers, Sequences, FiniteSets, TLC

VARIABLES
    \* --- hook state as last set, and the props ----------------------------
    isPlaying,          \* useState(false), part_001:53
    width, height,      \* the width / height props (App: resolution) of the last render
    stepsPerFrame,      \* the stepsPerFrame prop of the last render
    params,             \* the params prop of the last render
    seedType,           \* the seedType prop (App: fixed at start-up)
    dt,                 \* the dt prop (App passes 1.0)
    \* --- what React has rendered -----------------------------------------
    rendered,           \* the values the last render read (its closures)
    effectDeps,         \* the values of the render whose effects ran last
    effectsPending,     \* a render is committed, its effects have not run
    \* --- refs ------------------------------------------------------------
    stateRef,           \* stateRef.current: [width, height, u, v]
    paramsRef,          \* paramsRef.current
    stepsPerFrameRef,   \* stepsPerFrameRef.current
    animationFrameRef,  \* animationFrameRef.current (0 models null)
    \* --- host ------------------------------------------------------------
    frames,             \* requested animation frames not yet run / cancelled
    timerPending,       \* the setTimeout(render, 0) of the dimension effect
    hidden,             \* document.hidden
    listener,           \* isPlaying as seen by the registered visibility listener
    \* --- observation -----------------------------------------------------
    pauseCalled,        \* pause() was called while Running, no play() since
    last,               \* what the last operation did (name, step / render counts)
    \* --- persistence -----------------------------------------------------
    persist             \* the debounced localStorage hook, or a shareable link

vars == <<isPlaying, width, height, stepsPerFrame, params, seedType, dt,
          rendered, effectDeps, effectsPending,
          stateRef, paramsRef, stepsPerFrameRef, animationFrameRef,
          frames, timerPending, hidden, listener, pauseCalled, last, persist>>

\* persist in the specifications that leave the persistence layer out.
NoPersistence == <<>>

----------------------------------------------------------------------------
(* Bounds *)

\* Fixed-point steps per quarter unit: 1.0 is 4 * FracUnits steps.
FracUnits == 1
\* Grid sides range over 1..MaxSide (the application uses 128, 256, 512).
MaxSide == 2
\* The largest stepsPerFrame of the model (the control offers 1..10).
MaxStepsPerFrame == 2
\* Steps applied to one field by the engine-only specification.
MaxEngineSteps == 3

----------------------------------------------------------------------------
(* Numbers *)

One == 4 * FracUnits
Half == One \div 2
Quarter == One \div 4

\* Largest finite double and largest finite float32 of the model.
MaxDouble == 32 * One
MaxFloat == 8 * One

PosInf == MaxDouble + 1
NegInf == -PosInf
NaN == MaxDouble + 2

\* Rounding of an exact result that exceeds the finite range.
Overflow(n) == IF n > MaxDouble THEN PosInf ELSE IF n < -MaxDouble THEN NegInf ELSE n

\* n / d rounded to the nearest integer (d > 0).
RoundDiv(n, d) == (2 * n + d) \div (2 * d)

Neg(a) == IF a = NaN THEN NaN ELSE -a

\* a + b
Add(a, b) ==
    IF a = NaN \/ b = NaN THEN NaN
    ELSE IF a = PosInf THEN (IF b = NegInf THEN NaN ELSE PosInf)
    ELSE IF a = NegInf THEN (IF b = PosInf THEN NaN ELSE NegInf)
    ELSE IF b = PosInf \/ b = NegInf THEN b
    ELSE Overflow(a + b)

\* a - b
Sub(a, b) == Add(a, Neg(b))

\* a * b
Mul(a, b) ==
    IF a = NaN \/ b = NaN THEN NaN
    ELSE IF a \in {PosInf, NegInf} \/ b \in {PosInf, NegInf}
         THEN (IF a = 0 \/ b = 0 THEN NaN
               ELSE IF (a > 0) = (b > 0) THEN PosInf ELSE NegInf)
    ELSE Overflow(RoundDiv(a * b, One))

\* Math.min / Math.max: NaN if either argument is NaN.
MathMin(a, b) == IF a = NaN \/ b = NaN THEN NaN ELSE IF a < b THEN a ELSE b
MathMax(a, b) == IF a = NaN \/ b = NaN THEN NaN ELSE IF a > b THEN a ELSE b

\* Storing a number into a Float32Array element.
ToFloat32(a) ==
    IF a = NaN THEN NaN
    ELSE IF a > MaxFloat THEN PosInf
    ELSE IF a < -MaxFloat THEN NegInf
    ELSE a

----------------------------------------------------------------------------
(* Field engine: simulation/grayScott.ts *)

Min(a, b) == IF a < b THEN a ELSE b

SeedTypes == {"center", "random", "multiple"}

\* Grid sides of the model, and the sizes (width, height) the loop is given: one
\* square, one narrower, one lower.
Sides == {n \in 1..MaxSide : n >= MaxSide - 1}
Sizes == {<<MaxSide, MaxSide>>, <<MaxSide - 1, MaxSide>>, <<MaxSide, MaxSide - 1>>}

\* u.fill(1.0), v.fill(0.0), then u[idx] = 0.5, v[idx] = 0.25 for every idx of `cells`.
SeedCells(w, h, cells) ==
    [width |-> w, height |-> h,
     u |-> [i \in 0..(w * h - 1) |-> IF i \in cells THEN Half ELSE One],
     v |-> [i \in 0..(w * h - 1) |-> IF i \in cells THEN Quarter ELSE 0]]

\* The center pattern with its centre at floor((size - 1) / 2).
CenterCellsLow(w, h) ==
    LET centerX == (w - 1) \div 2
        centerY == (h - 1) \div 2
        m == Min(w, h)
    IN  {y * w + x : <<x, y>> \in
           {c \in (0..(w - 1)) \X (0..(h - 1)) :
              100 * ((c[1] - centerX) * (c[1] - centerX) + (c[2] - centerY) * (c[2] - centerY))
                < m * m}}

\* The center pattern with dist <= radius.
CenterCellsInclusive(w, h) ==
    LET centerX == w \div 2
        centerY == h \div 2
        m == Min(w, h)
    IN  {y * w + x : <<x, y>> \in
           {c \in (0..(w - 1)) \X (0..(h - 1)) :
              100 * ((c[1] - centerX) * (c[1] - centerX) + (c[2] - centerY) * (c[2] - centerY))
                <= m * m}}

\* seedType === 'center': the idx written.  dist < radius with
\* radius = min(width, height) * 0.1, i.e. 100 * (dx^2 + dy^2) < min(width, height)^2.
CenterCells(w, h) ==
    LET centerX == w \div 2
        centerY == h \div 2
        m == Min(w, h)
    IN  {y * w + x : <<x, y>> \in
           {c \in (0..(w - 1)) \X (0..(h - 1)) :
              100 * ((c[1] - centerX) * (c[1] - centerX) + (c[2] - centerY) * (c[2] - centerY))
                < m * m}}

\* seedType === 'multiple': the idx written.  Centres floor(g * width / 4),
\* radius = min(width / 4, height / 4) * 0.15, i.e. 6400 * (dx^2 + dy^2) < 9 * min(width, height)^2.
GridSize == 3
\* The multiple pattern with its centres at (gx * spacingX, gy * spacingY), not floored:
\* 400 * ((4x - gx * width)^2 + (4y - gy * height)^2) < 9 * min(width, height)^2.
MultipleCellsUnfloored(w, h) ==
    LET m == Min(w, h)
    IN  {y * w + x : <<x, y>> \in
           {c \in (0..(w - 1)) \X (0..(h - 1)) :
              \E gx \in 1..GridSize, gy \in 1..GridSize :
                 400 * (((GridSize + 1) * c[1] - gx * w) * ((GridSize + 1) * c[1] - gx * w)
                         + ((GridSize + 1) * c[2] - gy * h) * ((GridSize + 1) * c[2] - gy * h))
                   < 9 * m * m}}

MultipleCells(w, h) ==
    LET m == Min(w, h)
    IN  {y * w + x : <<x, y>> \in
           {c \in (0..(w - 1)) \X (0..(h - 1)) :
              \E gx \in 1..GridSize, gy \in 1..GridSize :
                 LET centerX == (gx * w) \div (GridSize + 1)
                     centerY == (gy * h) \div (GridSize + 1)
                 IN  6400 * ((c[1] - centerX) * (c[1] - centerX)
                              + (c[2] - centerY) * (c[2] - centerY)) < 9 * m * m}}

\* seedType === 'random'.  numSeeds = 3 + floor(random * 5) seeds, each with a centre
\* cell (x, y) and radius = 5 + random * 10.  Lengths are fixed-point here (One units
\* to a cell).  dx and dy run from -radius in steps of 1 while <= radius, so nx, ny
\* and idx = ny * width + nx are fractional when radius is; a write u[idx] with idx
\* no integer in 0..size-1 stores nothing.
MinSeeds == 3
SeedSpan == 5
MinRadius == 5
RadiusSpan == 10
Radii == {MinRadius * One, MinRadius * One + 1, (MinRadius + RadiusSpan) * One - 1}

\* The idx written for one seed.
RandomSeedCells(w, h, x, y, radius) ==
    LET offsets == {i * One - radius : i \in 0..((2 * radius) \div One)}
        hits == {d \in offsets \X offsets :
                   LET nx == x * One + d[1]
                       ny == y * One + d[2]
                   IN  /\ nx >= 0 /\ nx < w * One /\ ny >= 0 /\ ny < h * One
                       /\ d[1] * d[1] + d[2] * d[2] < radius * radius}
        idxs == {(y * One + d[2]) * w + (x * One + d[1]) : d \in hits}
    IN  {idx \div One : idx \in {i \in idxs : i % One = 0 /\ i \div One < w * h}}

\* The sets of idx that n seeds can write between them.
RECURSIVE RandomCellSets(_, _, _)
RandomCellSets(w, h, n) ==
    IF n = 0 THEN {{}}
    ELSE {cells \cup RandomSeedCells(w, h, x, y, radius) :
            cells \in RandomCellSets(w, h, n - 1),
            x \in 0..(w - 1), y \in 0..(h - 1), radius \in Radii}

\* The fields the random pattern can produce, for every size of the model.
RandomFields ==
    [w \in Sides, h \in Sides |->
       {SeedCells(w, h, cells) :
          cells \in UNION {RandomCellSets(w, h, n) :
                             n \in MinSeeds..(MinSeeds + SeedSpan - 1)}}]

\* createSimulationState with Math.random read by every pattern.
createSimulationStateRandom(w, h, seed) ==
    IF seed = "multiple" THEN {SeedCells(w, h, MultipleCells(w, h))} \cup RandomFields[w, h]
    ELSE IF seed = "center" THEN {SeedCells(w, h, CenterCells(w, h)), SeedCells(w, h, {})}
    ELSE RandomFields[w, h]

\* createSimulationState: the set of fields it can return.
createSimulationState(w, h, seed) ==
    IF seed = "center" THEN {SeedCells(w, h, CenterCells(w, h))}
    ELSE IF seed = "random" THEN RandomFields[w, h]
    ELSE IF seed = "multiple" THEN {SeedCells(w, h, MultipleCells(w, h))}
    ELSE {SeedCells(w, h, {})}

\* createSimulationState for any two numbers: width and height are fixed-point here
\* (One to a cell), as the caller passes them, and so are the width and height of
\* the field it returns.

\* new Float32Array(size): the length is size truncated towards zero.
Trunc(n, d) == IF n >= 0 THEN n \div d ELSE 0 - ((0 - n) \div d)
ArrayLength(w, h) == Trunc(w * h, One * One)

\* for (let x = 0; x < n; x++): the values of x.
LoopCells(n) == {x \in 0..(n \div One + 1) : x * One < n}

\* seedType === 'center': ny * width + nx (in units of One) of the writes.
CenterWrites(w, h) ==
    LET centerX == w \div (2 * One)
        centerY == h \div (2 * One)
        m == Min(w, h)
    IN  {c[2] * w + c[1] * One : c \in
           {c \in LoopCells(w) \X LoopCells(h) :
              100 * One * One * ((c[1] - centerX) * (c[1] - centerX)
                                  + (c[2] - centerY) * (c[2] - centerY)) < m * m}}

\* seedType === 'multiple': y * width + x (in units of One) of the writes.
MultipleWrites(w, h) ==
    LET m == Min(w, h)
    IN  {c[2] * w + c[1] * One : c \in
           {c \in LoopCells(w) \X LoopCells(h) :
              \E gx \in 1..GridSize, gy \in 1..GridSize :
                 LET centerX == (gx * w) \div ((GridSize + 1) * One)
                     centerY == (gy * h) \div ((GridSize + 1) * One)
                 IN  6400 * One * One * ((c[1] - centerX) * (c[1] - centerX)
                                          + (c[2] - centerY) * (c[2] - centerY))
                       < 9 * m * m}}

\* seedType === 'random', one seed at (x, y): ny * width + nx (in units of One * One)
\* of the writes.
RandomWrites(w, h, x, y, radius) ==
    LET offsets == {i * One - radius : i \in 0..((2 * radius) \div One)}
        hits == {d \in offsets \X offsets :
                   LET nx == x * One + d[1]
                       ny == y * One + d[2]
                   IN  /\ nx >= 0 /\ nx < w /\ ny >= 0 /\ ny < h
                       /\ d[1] * d[1] + d[2] * d[2] < radius * radius}
    IN  {(y * One + d[2]) * w + (x * One + d[1]) * One : d \in hits}

\* u[idx] = 0.5, v[idx] = 0.25: the elements written, idx given in `unit`s; an idx
\* that is no integer below the length writes nothing.
Written(idxs, unit, len) ==
    {idx \div unit : idx \in {i \in idxs : i % unit = 0 /\ i \div unit < len}}

\* The sets of elements n random seeds can write between them.  x = floor(random *
\* width) is a cell of the loop range for a positive width; with a width or height
\* not positive no (nx, ny) passes the range test.
RECURSIVE RandomWrittenSets(_, _, _)
RandomWrittenSets(w, h, n) ==
    IF n = 0 \/ w <= 0 \/ h <= 0 THEN {{}}
    ELSE LET one == {Written(RandomWrites(w, h, x, y, radius), One * One, ArrayLength(w, h)) :
                       x \in LoopCells(w), y \in LoopCells(h), radius \in Radii}
         IN  {cells \cup new : cells \in RandomWrittenSets(w, h, n - 1), new \in one}

\* The field returned for a set of written elements.
FieldOf(w, h, cells) ==
    [width |-> w, height |-> h,
     u |-> [i \in 0..(ArrayLength(w, h) - 1) |-> IF i \in cells THEN Half ELSE One],
     v |-> [i \in 0..(ArrayLength(w, h) - 1) |-> IF i \in cells THEN Quarter ELSE 0]]

\* The outcomes of createSimulationState(w, h, seed): a RangeError thrown by new
\* Float32Array for a negative length, or a field returned.
createSimulationStateOf(w, h, seed) ==
    IF ArrayLength(w, h) < 0 THEN {[error |-> "RangeError"]}
    ELSE {[error |-> "none", state |-> FieldOf(w, h, cells)] : cells \in
            IF seed = "center" THEN {Written(CenterWrites(w, h), One, ArrayLength(w, h))}
            ELSE IF seed = "multiple"
                 THEN {Written(MultipleWrites(w, h), One, ArrayLength(w, h))}
            ELSE UNION {RandomWrittenSets(w, h, n) : n \in MinSeeds..(MinSeeds + SeedSpan - 1)}}

\* The stencil with the edge cell itself read in place of a neighbour beyond the edge.
laplacianClamped(grid, w, h, x, y) ==
    LET center == grid[y * w + x]
        left == grid[y * w + (IF x = 0 THEN 0 ELSE x - 1)]
        right == grid[y * w + (IF x = w - 1 THEN x ELSE x + 1)]
        up == grid[(IF y = 0 THEN 0 ELSE y - 1) * w + x]
        down == grid[(IF y = h - 1 THEN y ELSE y + 1) * w + x]
    IN  Sub(Add(Add(Add(left, right), up), down), Mul(4 * One, center))

\* The stencil with 0 read in place of a neighbour beyond the edge.
laplacianOpen(grid, w, h, x, y) ==
    LET center == grid[y * w + x]
        left == IF x = 0 THEN 0 ELSE grid[y * w + x - 1]
        right == IF x = w - 1 THEN 0 ELSE grid[y * w + x + 1]
        up == IF y = 0 THEN 0 ELSE grid[(y - 1) * w + x]
        down == IF y = h - 1 THEN 0 ELSE grid[(y + 1) * w + x]
    IN  Sub(Add(Add(Add(left, right), up), down), Mul(4 * One, center))

\* laplacian: 5-point stencil, periodic neighbours.
laplacian(grid, w, h, x, y) ==
    LET center == grid[y * w + x]
        left == grid[y * w + ((x - 1 + w) % w)]
        right == grid[y * w + ((x + 1) % w)]
        up == grid[((y - 1 + h) % h) * w + x]
        down == grid[((y + 1) % h) * w + x]
    IN  Sub(Add(Add(Add(left, right), up), down), Mul(4 * One, center))

\* Math.max(0, Math.min(1, x)) on a Float32Array element.
Clamp(a) == ToFloat32(MathMax(0, MathMin(One, a)))

\* The new u value of cell idx.
StepU(state, p, deltaT, idx) ==
    LET x == idx % state.width
        y == idx \div state.width
        lapU == laplacian(state.u, state.width, state.height, x, y)
        uVal == state.u[idx]
        vVal == state.v[idx]
        reaction == Mul(Mul(uVal, vVal), vVal)
        dUdt == Add(Sub(Mul(p.du, lapU), reaction), Mul(p.f, Sub(One, uVal)))
    IN  Clamp(ToFloat32(Add(uVal, Mul(deltaT, dUdt))))

\* The new v value of cell idx.
StepV(state, p, deltaT, idx) ==
    LET x == idx % state.width
        y == idx \div state.width
        lapV == laplacian(state.v, state.width, state.height, x, y)
        uVal == state.u[idx]
        vVal == state.v[idx]
        reaction == Mul(Mul(uVal, vVal), vVal)
        dVdt == Sub(Add(Mul(p.dv, lapV), reaction), Mul(Add(p.f, p.k), vVal))
    IN  Clamp(ToFloat32(Add(vVal, Mul(deltaT, dVdt))))

\* The cells in the order the loops visit them (y outer, x inner; idx = y * width + x).
RowMajor(w, h) == [i \in 1..(w * h) |-> i - 1]

\* new Float32Array(width * height): every element 0.
NewArray(size) == [i \in 0..(size - 1) |-> 0]

\* TRUE, once the value is computed: the loops below compute the arrays of a cell
\* before they go on to the next.
Stored(value) == value = value

\* The loop body run in place: each cell is written into the arrays the later cells
\* read.  (The cells of `order` are taken in turn, the first half before the second.)
RECURSIVE StepCellsInPlace(_, _, _, _, _, _)
StepCellsInPlace(state, p, deltaT, order, uNew, vNew) ==
    IF ~(Stored(state) /\ Stored(order)) \/ Len(order) = 0
       THEN state
       ELSE IF Len(order) = 1
       THEN [state EXCEPT !.u[order[1]] = StepU(state, p, deltaT, order[1]),
                          !.v[order[1]] = StepV(state, p, deltaT, order[1])]
       ELSE LET half == Len(order) \div 2
                first == StepCellsInPlace(state, p, deltaT, SubSeq(order, 1, half), uNew, vNew)
            IN  StepCellsInPlace(first, p, deltaT, SubSeq(order, half + 1, Len(order)),
                                 uNew, vNew)

\* The loop body for the cells of `order` in turn: uNew[idx] and vNew[idx] are
\* computed from the arrays u and v of `state` and stored in the temporary arrays;
\* after the last cell they are copied back with u.set / v.set.  (The cells of
\* `order` are taken in turn, the first half before the second.)
RECURSIVE StepCells(_, _, _, _, _, _)
StepCells(state, p, deltaT, order, uNew, vNew) ==
    IF ~(Stored(order) /\ Stored(uNew) /\ Stored(vNew)) \/ Len(order) = 0
       THEN [width |-> state.width, height |-> state.height, u |-> uNew, v |-> vNew]
       ELSE IF Len(order) = 1
       THEN [width |-> state.width, height |-> state.height,
             u |-> [uNew EXCEPT ![order[1]] = StepU(state, p, deltaT, order[1])],
             v |-> [vNew EXCEPT ![order[1]] = StepV(state, p, deltaT, order[1])]]
       ELSE LET half == Len(order) \div 2
                first == StepCells(state, p, deltaT, SubSeq(order, 1, half), uNew, vNew)
            IN  StepCells(state, p, deltaT, SubSeq(order, half + 1, Len(order)),
                          first.u, first.v)

\* The field a pass of the loops over the cells in `order` leaves.
StepInOrder(state, p, deltaT, order) ==
    StepCells(state, p, deltaT, order,
              NewArray(state.width * state.height), NewArray(state.width * state.height))

\* A value with its elements computed once (the arrays are stored, not recomputed
\* at every read).
Evaluated(value) == IF value = value THEN value ELSE value

\* stepSimulation: the field after one step (uNew, vNew are filled from the old
\* arrays, then copied back with u.set / v.set).
stepSimulation(state, p, deltaT) ==
  Evaluated(
    [width |-> state.width, height |-> state.height,
     u |-> [idx \in 0..(state.width * state.height - 1) |-> StepU(state, p, deltaT, idx)],
     v |-> [idx \in 0..(state.width * state.height - 1) |-> StepV(state, p, deltaT, idx)]])

\* n calls of stepSimulation that all read the field the batch started with.
StepTimesFromStart(state, p, deltaT, n) ==
    IF n <= 0 THEN state ELSE stepSimulation(state, p, deltaT)

\* n calls of stepSimulation in sequence (the for loops of animate and step).
RECURSIVE StepTimes(_, _, _, _)
StepTimes(state, p, deltaT, n) ==
    IF n <= 0 THEN state
    ELSE StepTimes(stepSimulation(state, p, deltaT), p, deltaT, n - 1)

\* resetSimulation copying u only.
resetSimulationUOnly(state, seed) ==
    {[width |-> state.width, height |-> state.height, u |-> fresh.u, v |-> state.v] :
       fresh \in createSimulationState(state.width, state.height, seed)}

\* resetSimulation seeding with its default pattern, whatever seed it is given.
resetSimulationCenter(state, seed) ==
    {[width |-> state.width, height |-> state.height, u |-> fresh.u, v |-> fresh.v] :
       fresh \in createSimulationState(state.width, state.height, "center")}

\* resetSimulation: the fields it can leave in `state` (u.set / v.set of a new
\* state of the same size; width and height are not assigned).
resetSimulation(state, seed) ==
    {[width |-> state.width, height |-> state.height, u |-> fresh.u, v |-> fresh.v] :
       fresh \in createSimulationState(state.width, state.height, seed)}

----------------------------------------------------------------------------
(* Inputs of the model *)

\* Parameter records the engine is driven with: a pattern-forming set, pure
\* diffusion, negative coefficients, and the largest finite number.
TypicalParams == [du |-> Half, dv |-> Quarter, f |-> Quarter, k |-> Quarter]
NegativeParams == [du |-> -One, dv |-> -Half, f |-> -Quarter, k |-> -One]
HugeParams == [du |-> Half, dv |-> Quarter, f |-> MaxDouble, k |-> MaxDouble]

\* The params the application passes to the hook.
LoopParams == {TypicalParams}
\* The stepsPerFrame values the application passes.
StepsChoices == {1, MaxStepsPerFrame}
\* Finite params and time steps given to the engine directly.
EngineParams == {TypicalParams, NegativeParams, HugeParams}
EngineDts == {One, 0 - 2 * One}

\* n / d in the model's fixed-point unit (a decimal constant of the scenarios).
Decimal(n, d) == RoundDiv(n * One, d)
\* The default Gray-Scott parameters: du = 0.16, dv = 0.08, f = 0.035, k = 0.065.
DefaultParams ==
    [du |-> Decimal(16, 100), dv |-> Decimal(8, 100),
     f |-> Decimal(35, 1000), k |-> Decimal(65, 1000)]
\* Sides of the fields seeded with the center pattern: radius 0.4, 1.0 and 1.1.
CenterSides == {4, 10, 11}
\* Sides of the larger fields seeded with the multiple pattern: spacing 1.25 and 2.
MultipleSides == {5, 8}
\* The inputs (width, height, seedType, params, dt) of the engine runs: every size
\* and pattern of the model with typical and negative params, and the center
\* pattern on the larger fields (create(4, 4, 'center') among them) and the
\* multiple pattern on its larger fields with the default params and dt = 1.0.
RunInputs ==
    (Sides \X Sides \X SeedTypes \X {TypicalParams, NegativeParams} \X EngineDts)
      \cup (CenterSides \X CenterSides \X {"center"} \X {DefaultParams} \X {One})
      \cup (MultipleSides \X MultipleSides \X {"multiple"} \X {DefaultParams} \X {One})

\* A field at rest (u = 1.0, v = 0.0) but for cell idx, whose u is a and whose v is b:
\* the arrays of a created field written by the caller.
Perturbed(w, h, idx, a, b) ==
    [width |-> w, height |-> h,
     u |-> [i \in 0..(w * h - 1) |-> IF i = idx THEN a ELSE One],
     v |-> [i \in 0..(w * h - 1) |-> IF i = idx THEN b ELSE 0]]
\* Sides of the perturbed fields: up to one more than MaxSide, so that the two
\* neighbours of a cell in a row are different cells.
ProbeSides == 1..(MaxSide + 1)
\* Diffusion alone (f = k = 0) with the coefficient du.
Diffusion(du) == [du |-> du, dv |-> Quarter, f |-> 0, k |-> 0]
ProbeParams == {Diffusion(Quarter), Diffusion(Half), Diffusion(One), TypicalParams}
ProbeDts == {Half, One}

----------------------------------------------------------------------------
(* Simulation loop: hooks/useReactionDiffusion.ts as used by App.tsx *)

\* What the last operation did: which of the operations on the field it was (step,
\* animate, reset, randomSeed; "none" for the others), its stepSimulation calls and
\* the render() calls that drew the field.
FieldOps == {"step", "animate", "reset", "randomSeed"}
Did(name, steps, renders) ==
    [op |-> IF name \in FieldOps THEN name ELSE "none", steps |-> steps, renders |-> renders]

\* The values a render reads.
Current ==
    [isPlaying |-> isPlaying, width |-> width, height |-> height,
     stepsPerFrame |-> stepsPerFrame, params |-> params, seedType |-> seedType, dt |-> dt]

\* render(): draws when the canvas (mounted with the component) and the state exist.
\* The number of frames drawn by one call.
render(state) == IF state.width * state.height = 0 THEN 0 ELSE 1

\* requestAnimationFrame: a handle no pending request has and the ref does not hold.
NewFrameId(pending, ref) ==
    CHOOSE id \in 1..(Cardinality(pending) + 2) :
       /\ id # ref
       /\ \A fr \in pending : fr.id # id
       /\ \A other \in 1..(id - 1) : other = ref \/ \E fr \in pending : fr.id = other

\* A cancelAnimationFrame that leaves the request pending.
cancelAnimationFrameLeaves(pending, id) == pending

\* cancelAnimationFrame(id)
cancelAnimationFrame(pending, id) == {fr \in pending : fr.id # id}

\* The animate callback of a render: its isPlaying and the size its render() uses.
Animate(r) == [isPlaying |-> r.isPlaying, width |-> r.width, height |-> r.height]

\* play() written as a toggle: setIsPlaying(prev => !prev).
playToggles ==
    /\ isPlaying' = ~isPlaying
    /\ pauseCalled' = FALSE
    /\ last' = Did("play", 0, 0)
    /\ UNCHANGED <<persist, width, height, stepsPerFrame, params, seedType, dt, rendered, effectDeps,
                   effectsPending, stateRef, paramsRef, stepsPerFrameRef, animationFrameRef,
                   frames, timerPending, hidden, listener>>

\* play(): setIsPlaying(true)
play ==
    /\ isPlaying' = TRUE
    /\ pauseCalled' = FALSE
    /\ last' = Did("play", 0, 0)
    /\ UNCHANGED <<persist, width, height, stepsPerFrame, params, seedType, dt, rendered, effectDeps,
                   effectsPending, stateRef, paramsRef, stepsPerFrameRef, animationFrameRef,
                   frames, timerPending, hidden, listener>>

\* pause(): setIsPlaying(false)
pause ==
    /\ isPlaying' = FALSE
    /\ pauseCalled' = (pauseCalled \/ isPlaying)
    /\ last' = Did("pause", 0, 0)
    /\ UNCHANGED <<persist, width, height, stepsPerFrame, params, seedType, dt, rendered, effectDeps,
                   effectsPending, stateRef, paramsRef, stepsPerFrameRef, animationFrameRef,
                   frames, timerPending, hidden, listener>>

\* A batch of one step whatever the speed.
BatchStepsOnce(state, steps) == IF state.width * state.height = 0 THEN 0 ELSE 1

\* The stepSimulation calls of one batch: none without a state.
BatchSteps(state, steps) == IF state.width * state.height = 0 THEN 0 ELSE steps

\* step() reading the params of the last render in place of paramsRef.current.
stepRenderedParams ==
    /\ stateRef' = StepTimes(stateRef, rendered.params, rendered.dt,
                             BatchSteps(stateRef, stepsPerFrameRef))
    /\ last' = Did("step", BatchSteps(stateRef, stepsPerFrameRef), render(stateRef))
    /\ UNCHANGED <<persist, isPlaying, width, height, stepsPerFrame, params, seedType, dt, rendered,
                   effectDeps, effectsPending, paramsRef, stepsPerFrameRef,
                   animationFrameRef, frames, timerPending, hidden, listener, pauseCalled>>

\* step(): one batch of stepsPerFrameRef.current steps, then render().
step ==
    /\ stateRef' = StepTimes(stateRef, paramsRef, rendered.dt,
                             BatchSteps(stateRef, stepsPerFrameRef))
    /\ last' = Did("step", BatchSteps(stateRef, stepsPerFrameRef), render(stateRef))
    /\ UNCHANGED <<persist, isPlaying, width, height, stepsPerFrame, params, seedType, dt, rendered,
                   effectDeps, effectsPending, paramsRef, stepsPerFrameRef,
                   animationFrameRef, frames, timerPending, hidden, listener, pauseCalled>>

\* reset(): resetSimulation(state, seedType), then render().
reset ==
    /\ stateRef.width * stateRef.height # 0
    /\ stateRef' \in resetSimulation(stateRef, rendered.seedType)
    /\ last' = Did("reset", 0, render(stateRef))
    /\ UNCHANGED <<persist, isPlaying, width, height, stepsPerFrame, params, seedType, dt, rendered,
                   effectDeps, effectsPending, paramsRef, stepsPerFrameRef,
                   animationFrameRef, frames, timerPending, hidden, listener, pauseCalled>>

\* randomSeed() with the configured pattern in place of 'random'.
randomSeedConfigured ==
    /\ stateRef.width * stateRef.height # 0
    /\ stateRef' \in resetSimulation(stateRef, rendered.seedType)
    /\ last' = Did("randomSeed", 0, render(stateRef))
    /\ UNCHANGED <<persist, isPlaying, width, height, stepsPerFrame, params, seedType, dt, rendered,
                   effectDeps, effectsPending, paramsRef, stepsPerFrameRef,
                   animationFrameRef, frames, timerPending, hidden, listener, pauseCalled>>

\* randomSeed(): resetSimulation(state, 'random'), then render().
randomSeed ==
    /\ stateRef.width * stateRef.height # 0
    /\ stateRef' \in resetSimulation(stateRef, "random")
    /\ last' = Did("randomSeed", 0, render(stateRef))
    /\ UNCHANGED <<persist, isPlaying, width, height, stepsPerFrame, params, seedType, dt, rendered,
                   effectDeps, effectsPending, paramsRef, stepsPerFrameRef,
                   animationFrameRef, frames, timerPending, hidden, listener, pauseCalled>>

\* animate without the request for the next frame.
animateOnce ==
    \E fr \in frames :
       /\ frames' = frames \ {fr}
       /\ UNCHANGED animationFrameRef
       /\ last' = Did("animate", BatchSteps(stateRef, stepsPerFrameRef), render(stateRef))
       /\ UNCHANGED <<persist, isPlaying, width, height, stepsPerFrame, params, seedType, dt,
                      rendered, effectDeps, effectsPending, paramsRef, stepsPerFrameRef,
                      timerPending, hidden, listener, pauseCalled>>
       /\ stateRef' = StepTimes(stateRef, paramsRef, rendered.dt,
                                BatchSteps(stateRef, stepsPerFrameRef))

\* animate, run by the host for a requested frame: one batch, render(), and a new
\* request when the isPlaying of its render is true.
animate ==
    \E fr \in frames :
       LET rest == frames \ {fr}
           id == NewFrameId(rest, animationFrameRef)
       IN  /\ IF fr.isPlaying /\ stateRef.width * stateRef.height # 0
                 THEN /\ frames' = rest \cup {[fr EXCEPT !.id = id]}
                      /\ animationFrameRef' = id
                 ELSE /\ frames' = rest
                      /\ UNCHANGED animationFrameRef
           /\ last' = Did("animate", BatchSteps(stateRef, stepsPerFrameRef), render(stateRef))
           /\ UNCHANGED <<persist, isPlaying, width, height, stepsPerFrame, params, seedType, dt,
                          rendered, effectDeps, effectsPending, paramsRef, stepsPerFrameRef,
                          timerPending, hidden, listener, pauseCalled>>
           /\ stateRef' = StepTimes(stateRef, paramsRef, rendered.dt,
                                    BatchSteps(stateRef, stepsPerFrameRef))

\* handleVisibilityChange, as registered by the last run of its effect.
handleVisibilityChange(nowHidden) ==
    /\ hidden' = nowHidden
    /\ isPlaying' = IF nowHidden /\ listener THEN FALSE ELSE isPlaying
    /\ last' = Did(IF nowHidden THEN "hide" ELSE "show", 0, 0)
    /\ UNCHANGED <<persist, width, height, stepsPerFrame, params, seedType, dt, rendered, effectDeps,
                   effectsPending, stateRef, paramsRef, stepsPerFrameRef, animationFrameRef,
                   frames, timerPending, listener, pauseCalled>>

visibilitychange == \E nowHidden \in BOOLEAN : nowHidden # hidden /\ handleVisibilityChange(nowHidden)

\* The setTimeout callback of the dimension effect.
timer ==
    /\ timerPending
    /\ timerPending' = FALSE
    /\ last' = Did("timer", 0, render(stateRef))
    /\ UNCHANGED <<persist, isPlaying, width, height, stepsPerFrame, params, seedType, dt, rendered,
                   effectDeps, effectsPending, stateRef, paramsRef, stepsPerFrameRef,
                   animationFrameRef, frames, hidden, listener, pauseCalled>>

\* React renders the component after a state change: of isPlaying, or of the
\* application's resolution, stepsPerFrame or params (setResolution,
\* setStepsPerFrame, setParams), which reach the hook as the props of this render.
\* The closures of the render read these values.  The effects of the previous render
\* have run by then.  (A render with nothing of the hook changed re-runs none of
\* its effects.)
RenderWith(sizes, speeds, paramSets) ==
    \E size \in sizes, n \in speeds, p \in paramSets :
       /\ ~effectsPending
       /\ width' = size[1] /\ height' = size[2] /\ stepsPerFrame' = n /\ params' = p
       /\ rendered' = [Current EXCEPT !.width = size[1], !.height = size[2],
                                      !.stepsPerFrame = n, !.params = p]
       /\ rendered' # rendered
       /\ effectsPending' = TRUE
       /\ last' = Did("render", 0, 0)
       /\ UNCHANGED <<persist, isPlaying, seedType, dt, effectDeps, stateRef, paramsRef,
                      stepsPerFrameRef, animationFrameRef, frames, timerPending, hidden,
                      listener, pauseCalled>>

\* A render with the props unchanged (isPlaying changed).
Render == RenderWith({<<width, height>>}, {stepsPerFrame}, {params})

\* A render with a new size, speed or parameter set, whatever isPlaying is.
RenderProps ==
    /\ RenderWith(Sizes, StepsChoices, LoopParams)
    /\ <<width', height', stepsPerFrame', params'>> # <<width, height, stepsPerFrame, params>>

\* Dependencies of the effects, compared between two renders.
DimsChanged(old, new) ==
    <<old.width, old.height, old.seedType>> # <<new.width, new.height, new.seedType>>
RenderChanged(old, new) == <<old.width, old.height>> # <<new.width, new.height>>
AnimateChanged(old, new) ==
    \/ old.isPlaying # new.isPlaying
    \/ old.dt # new.dt
    \/ RenderChanged(old, new)

\* The dimension effect comparing the width only.
DimensionEffectWidthOnly(state, r) ==
    IF state.width * state.height = 0 \/ state.width # r.width
       THEN createSimulationState(r.width, r.height, r.seedType)
       ELSE {state}

\* The dimension effect: a new state when there is none or its size differs.
DimensionEffect(state, r) ==
    IF state.width * state.height = 0 \/ state.width # r.width \/ state.height # r.height
       THEN createSimulationState(r.width, r.height, r.seedType)
       ELSE {state}

\* A cleanup that cancels nothing.
StartStopCleanupKeeps(pending, ref) == pending

\* The start/stop effect: its cleanup, then its body.
StartStopCleanup(pending, ref) == IF ref # 0 THEN cancelAnimationFrame(pending, ref) ELSE pending

StartStopFrames(pending, ref, r) ==
    IF r.isPlaying
       THEN pending \cup {[id |-> NewFrameId(pending, ref)] @@ Animate(r)}
       ELSE IF ref # 0 THEN cancelAnimationFrame(pending, ref) ELSE pending

StartStopRef(pending, ref, r) == IF r.isPlaying THEN NewFrameId(pending, ref) ELSE 0

\* The passive effects of the last render, in source order, followed by the
\* application's own effects (updateParams(params), updatePalette(palette)), which
\* run after every render because their dependency `simulator` is a new object.
FlushEffects ==
    /\ effectsPending
    /\ effectsPending' = FALSE
    /\ effectDeps' = rendered
    /\ stepsPerFrameRef' = IF effectDeps.stepsPerFrame # rendered.stepsPerFrame
                              THEN rendered.stepsPerFrame ELSE stepsPerFrameRef
    /\ IF DimsChanged(effectDeps, rendered)
          THEN /\ stateRef' \in DimensionEffect(stateRef, rendered)
               /\ timerPending' = TRUE
          ELSE UNCHANGED <<stateRef, timerPending>>
    /\ paramsRef' = rendered.params
    /\ IF AnimateChanged(effectDeps, rendered)
          THEN LET kept == StartStopCleanup(frames, animationFrameRef)
               IN  /\ frames' = StartStopFrames(kept, animationFrameRef, rendered)
                   /\ animationFrameRef' = StartStopRef(kept, animationFrameRef, rendered)
          ELSE UNCHANGED <<frames, animationFrameRef>>
    /\ listener' = rendered.isPlaying
    /\ last' = Did("effects", 0,
                   (IF RenderChanged(effectDeps, rendered) THEN render(stateRef') ELSE 0)
                     + render(stateRef'))
    /\ UNCHANGED <<persist, isPlaying, width, height, stepsPerFrame, params, seedType, dt, rendered,
                   hidden, pauseCalled>>

\* The component as mounted: first render and its effects done, nothing playing.
Init ==
    /\ persist = NoPersistence
    /\ isPlaying = FALSE
    /\ \E size \in Sizes : width = size[1] /\ height = size[2]
    /\ stepsPerFrame \in StepsChoices
    /\ params \in LoopParams
    /\ seedType \in SeedTypes
    /\ dt = One
    /\ rendered = Current
    /\ effectDeps = Current
    /\ effectsPending = FALSE
    /\ stateRef \in createSimulationState(width, height, seedType)
    /\ paramsRef = params
    /\ stepsPerFrameRef = stepsPerFrame
    /\ animationFrameRef = 0
    /\ frames = {}
    /\ timerPending = TRUE
    /\ hidden = FALSE
    /\ listener = FALSE
    /\ pauseCalled = FALSE
    /\ last = Did("mount", 0, 2)

\* The loop under the user's operations and the host's events, the props fixed.
Next ==
    \/ play
    \/ pause
    \/ step
    \/ reset
    \/ randomSeed
    \/ animate
    \/ visibilitychange
    \/ timer
    \/ Render
    \/ FlushEffects

Spec == Init /\ [][Next]_vars

\* The loop while the application changes the props.
NextProps ==
    \/ play
    \/ pause
    \/ step
    \/ animate
    \/ timer
    \/ Render
    \/ RenderProps
    \/ FlushEffects

SpecProps == Init /\ [][NextProps]_vars

----------------------------------------------------------------------------
(* The engine alone: create, step and reset applied to one field *)

\* A field is created, no loop around it.
InitEngine ==
    /\ persist = NoPersistence
    /\ isPlaying = FALSE
    /\ width \in Sides /\ height \in Sides
    /\ stepsPerFrame = 1
    /\ params \in EngineParams
    /\ seedType \in SeedTypes
    /\ dt \in EngineDts
    /\ rendered = Current
    /\ effectDeps = Current
    /\ effectsPending = FALSE
    /\ stateRef \in createSimulationState(width, height, seedType)
    /\ paramsRef = params
    /\ stepsPerFrameRef = 1
    /\ animationFrameRef = 0
    /\ frames = {}
    /\ timerPending = FALSE
    /\ hidden = FALSE
    /\ listener = FALSE
    /\ pauseCalled = FALSE
    /\ last = [op |-> "create", steps |-> 0, renders |-> 0]

\* stepSimulation(state, params, dt), up to MaxEngineSteps times in all
\* (last.steps counts them).
EngineStep ==
    \E p \in EngineParams, deltaT \in EngineDts :
       /\ last.steps < MaxEngineSteps
       /\ stateRef' = stepSimulation(stateRef, p, deltaT)
       /\ params' = p /\ dt' = deltaT
       /\ last' = [op |-> "step", steps |-> last.steps + 1, renders |-> 0]
       /\ UNCHANGED <<persist, isPlaying, width, height, stepsPerFrame, seedType, rendered,
                      effectDeps, effectsPending, paramsRef, stepsPerFrameRef,
                      animationFrameRef, frames, timerPending, hidden, listener,
                      pauseCalled>>

\* resetSimulation(state, seed)
EngineReset ==
    \E seed \in SeedTypes :
       /\ stateRef' \in resetSimulation(stateRef, seed)
       /\ seedType' = seed
       /\ last' = [op |-> "reset", steps |-> last.steps, renders |-> 0]
       /\ UNCHANGED <<persist, isPlaying, width, height, stepsPerFrame, params, dt, rendered,
                      effectDeps, effectsPending, paramsRef, stepsPerFrameRef,
                      animationFrameRef, frames, timerPending, hidden, listener,
                      pauseCalled>>

NextEngine == EngineStep \/ EngineReset

SpecEngine == InitEngine /\ [][NextEngine]_vars

\* A run of the engine alone with fixed params and dt: createSimulationState, then
\* stepSimulation up to MaxEngineSteps times (last.steps counts them).
InitRun ==
    /\ persist = NoPersistence
    /\ \E in \in RunInputs :
          /\ width = in[1] /\ height = in[2] /\ seedType = in[3]
          /\ params = in[4] /\ dt = in[5]
    /\ stateRef \in createSimulationState(width, height, seedType)
    /\ isPlaying = FALSE
    /\ stepsPerFrame = 1
    /\ rendered = Current
    /\ effectDeps = Current
    /\ effectsPending = FALSE
    /\ paramsRef = params
    /\ stepsPerFrameRef = 1
    /\ animationFrameRef = 0
    /\ frames = {}
    /\ timerPending = FALSE
    /\ hidden = FALSE
    /\ listener = FALSE
    /\ pauseCalled = FALSE
    /\ last = [op |-> "create", steps |-> 0, renders |-> 0]

RunStep ==
    /\ last.steps < MaxEngineSteps
    /\ stateRef' = stepSimulation(stateRef, params, dt)
    /\ last' = [op |-> "step", steps |-> last.steps + 1, renders |-> 0]
    /\ UNCHANGED <<persist, isPlaying, width, height, stepsPerFrame, params, seedType, dt, rendered,
                   effectDeps, effectsPending, paramsRef, stepsPerFrameRef,
                   animationFrameRef, frames, timerPending, hidden, listener, pauseCalled>>

SpecRun == InitRun /\ [][RunStep]_vars

\* A run of the engine from a field at rest with one perturbed cell.
InitProbe ==
    /\ persist = NoPersistence
    /\ width \in ProbeSides /\ height \in ProbeSides
    /\ seedType = "center"
    /\ params \in ProbeParams
    /\ dt \in ProbeDts
    /\ \E idx \in 0..(width * height - 1), a \in {0, Half}, b \in {0, Quarter} :
          stateRef = Perturbed(width, height, idx, a, b)
    /\ isPlaying = FALSE
    /\ stepsPerFrame = 1
    /\ rendered = Current
    /\ effectDeps = Current
    /\ effectsPending = FALSE
    /\ paramsRef = params
    /\ stepsPerFrameRef = 1
    /\ animationFrameRef = 0
    /\ frames = {}
    /\ timerPending = FALSE
    /\ hidden = FALSE
    /\ listener = FALSE
    /\ pauseCalled = FALSE
    /\ last = [op |-> "create", steps |-> 0, renders |-> 0]

SpecProbe == InitProbe /\ [][RunStep]_vars

\* A run of the engine from a field with v = 0 in every cell: u = 1 in every cell
\* (the rest state; persist records it), or one cell of u lower.
InitRest ==
    /\ width \in ProbeSides /\ height \in ProbeSides
    /\ seedType = "center"
    /\ params \in EngineParams
    /\ dt \in EngineDts
    /\ \E idx \in 0..(width * height - 1), a \in {0, Half, One} :
          /\ stateRef = Perturbed(width, height, idx, a, 0)
          /\ persist = [rest |-> (a = One)]
    /\ isPlaying = FALSE
    /\ stepsPerFrame = 1
    /\ rendered = Current
    /\ effectDeps = Current
    /\ effectsPending = FALSE
    /\ paramsRef = params
    /\ stepsPerFrameRef = 1
    /\ animationFrameRef = 0
    /\ frames = {}
    /\ timerPending = FALSE
    /\ hidden = FALSE
    /\ listener = FALSE
    /\ pauseCalled = FALSE
    /\ last = [op |-> "create", steps |-> 0, renders |-> 0]

SpecRest == InitRest /\ [][RunStep]_vars

\* The keyboard shortcuts of the application (useKeyboardShortcuts), no input
\* field focused.  The keydown listener is registered again by the effects of every
\* render, so the onPlayPause it calls reads the isPlaying of the render whose
\* effects ran last.

\* onPlayPause: simulator.isPlaying ? simulator.pause() : simulator.play()
onPlayPause(key) ==
    /\ isPlaying' = ~effectDeps.isPlaying
    /\ pauseCalled' = IF effectDeps.isPlaying THEN (pauseCalled \/ isPlaying) ELSE FALSE
    /\ last' = [op |-> key, steps |-> 0, renders |-> 0]
    /\ UNCHANGED <<persist, width, height, stepsPerFrame, params, seedType, dt, rendered, effectDeps,
                   effectsPending, stateRef, paramsRef, stepsPerFrameRef, animationFrameRef,
                   frames, timerPending, hidden, listener>>

\* onExport: simulator.exportPNG(), which touches nothing of the loop.
onExport(key) ==
    /\ last' = [op |-> key, steps |-> 0, renders |-> 0]
    /\ UNCHANGED <<persist, isPlaying, width, height, stepsPerFrame, params, seedType, dt, rendered,
                   effectDeps, effectsPending, stateRef, paramsRef, stepsPerFrameRef,
                   animationFrameRef, frames, timerPending, hidden, listener, pauseCalled>>

\* handleKeyDown for the key pressed (event.key lower-cased; "shift+r" is r with Shift).
handleKeyDown(key) ==
    IF key = " " THEN onPlayPause(key)
    ELSE IF key = "s" THEN step
    ELSE IF key = "r" THEN reset
    ELSE IF key = "shift+r" THEN randomSeed
    ELSE IF key = "e" THEN onExport(key)
    ELSE IF key = "escape" THEN onPlayPause(key)
    ELSE UNCHANGED vars

Keys == {" ", "s", "r", "shift+r", "e", "escape"}
keydown == \E key \in Keys : handleKeyDown(key)

NextKeys ==
    \/ keydown
    \/ animate
    \/ timer
    \/ Render
    \/ FlushEffects

SpecKeys == Init /\ [][NextKeys]_vars

\* The application at start-up: stepsPerFrame of its initial state, from the `speed`
\* parameter of the URL and the state stored in localStorage.  A URL is <<>> (no
\* speed parameter) or <<n>> (speed parses to the integer n); a stored state is <<>>
\* (none) or <<version, stepsPerFrame>>.
CurrentVersion == 1
DefaultSpeed == 1
MaxSpeed == 10

\* urlParamsToState, the speed parameter: kept when 1 <= speedNum <= 10.
urlParamsToStateSpeed(url) ==
    IF url # <<>> /\ url[1] >= 1 /\ url[1] <= MaxSpeed THEN url ELSE <<>>

\* initialState.stepsPerFrame: the URL state merged over the default when the URL
\* gave any key (otherKeys: it gave one other than speed), else the stored state
\* of the current version merged over the default, else the default.
InitialStepsPerFrame(url, otherKeys, stored) ==
    LET urlState == urlParamsToStateSpeed(url)
    IN  IF urlState # <<>> THEN urlState[1]
        ELSE IF otherKeys THEN DefaultSpeed
        ELSE IF stored # <<>> /\ stored[1] = CurrentVersion THEN stored[2]
        ELSE DefaultSpeed

\* The speeds a URL or a stored state can hold.
LoadedSpeeds == {0, DefaultSpeed, MaxStepsPerFrame, MaxSpeed + 1}
Urls == {<<>>} \cup {<<n>> : n \in LoadedSpeeds}
StoredStates == {<<>>} \cup ({CurrentVersion, CurrentVersion + 1} \X LoadedSpeeds)

\* The component as mounted with the initial state of the application.
InitStart ==
    /\ persist = NoPersistence
    /\ isPlaying = FALSE
    /\ \E size \in Sizes : width = size[1] /\ height = size[2]
    /\ \E url \in Urls, otherKeys \in BOOLEAN, stored \in StoredStates :
          stepsPerFrame = InitialStepsPerFrame(url, otherKeys, stored)
    /\ params \in LoopParams
    /\ seedType \in {"center", "multiple"}
    /\ dt = One
    /\ rendered = Current
    /\ effectDeps = Current
    /\ effectsPending = FALSE
    /\ stateRef \in createSimulationState(width, height, seedType)
    /\ paramsRef = params
    /\ stepsPerFrameRef = stepsPerFrame
    /\ animationFrameRef = 0
    /\ frames = {}
    /\ timerPending = TRUE
    /\ hidden = FALSE
    /\ listener = FALSE
    /\ pauseCalled = FALSE
    /\ last = Did("mount", 0, 2)

\* The speed slider (min 1, max 10, step 1): setStepsPerFrame(value) and the render
\* that follows.
setStepsPerFrame ==
    /\ RenderWith({<<width, height>>}, StepsChoices, {params})
    /\ stepsPerFrame' # stepsPerFrame

NextStart ==
    \/ play
    \/ pause
    \/ step
    \/ animate
    \/ timer
    \/ setStepsPerFrame
    \/ Render
    \/ FlushEffects

SpecStart == InitStart /\ [][NextStart]_vars

\* The hook between the first commit of its component and the run of its effects:
\* the canvas is attached, stateRef.current is still null, and the functions the
\* hook has returned can be called (from a layout effect or a ref callback of the
\* component).  width and height are the numbers the component passes, fixed-point
\* (One to a cell): a resolution read from localStorage is not validated.
Null == [null |-> TRUE]
MountDims == {0 - One, 0, Half, One, One + Half, 2 * One}

\* What a call did: the render() calls that drew, the error it threw ("none" when it
\* returned), and whether it started a download.
Outcome(name, renders, error, download) ==
    [op |-> name, steps |-> 0, renders |-> renders, error |-> error, download |-> download]

InitMount ==
    /\ persist = NoPersistence
    /\ isPlaying = FALSE
    /\ width \in MountDims /\ height \in MountDims
    /\ stepsPerFrame = 1
    /\ params = TypicalParams
    /\ seedType \in SeedTypes
    /\ dt = One
    /\ rendered = Current
    /\ effectDeps = Current
    /\ effectsPending = TRUE
    /\ stateRef = Null
    /\ paramsRef = params
    /\ stepsPerFrameRef = 1
    /\ animationFrameRef = 0
    /\ frames = {}
    /\ timerPending = FALSE
    /\ hidden = FALSE
    /\ listener = FALSE
    /\ pauseCalled = FALSE
    /\ last = Outcome("commit", 0, "none", FALSE)

\* updatePalette(newPalette): paletteRef.current = newPalette, then render(), which
\* warns on the console and returns when there is no state.
updatePalette ==
    /\ effectsPending
    /\ last' = Outcome("updatePalette", IF stateRef = Null THEN 0 ELSE 1, "none", FALSE)
    /\ UNCHANGED <<persist, isPlaying, width, height, stepsPerFrame, params, seedType, dt, rendered,
                   effectDeps, effectsPending, stateRef, paramsRef, stepsPerFrameRef,
                   animationFrameRef, frames, timerPending, hidden, listener, pauseCalled>>

\* exportPNG(): with a canvas, a link to canvas.toDataURL('image/png') is clicked;
\* the state is not looked at.
exportPNG ==
    /\ effectsPending
    /\ last' = Outcome("exportPNG", 0, "none", TRUE)
    /\ UNCHANGED <<persist, isPlaying, width, height, stepsPerFrame, params, seedType, dt, rendered,
                   effectDeps, effectsPending, stateRef, paramsRef, stepsPerFrameRef,
                   animationFrameRef, frames, timerPending, hidden, listener, pauseCalled>>

\* The dimension effect at mount: stateRef.current = createSimulationState(width,
\* height, seedType) and a timer for the first render(); an error thrown by
\* createSimulationState leaves stateRef.current null and ends the effect.
MountEffect ==
    /\ effectsPending
    /\ \E out \in createSimulationStateOf(width, height, seedType) :
          /\ stateRef' = IF out.error = "none" THEN out.state ELSE Null
          /\ timerPending' = (out.error = "none")
          /\ last' = Outcome("mount", 0, out.error, FALSE)
    /\ effectsPending' = FALSE
    /\ UNCHANGED <<persist, isPlaying, width, height, stepsPerFrame, params, seedType, dt, rendered,
                   effectDeps, paramsRef, stepsPerFrameRef, animationFrameRef, frames,
                   hidden, listener, pauseCalled>>

NextMount == updatePalette \/ exportPNG \/ MountEffect

SpecMount == InitMount /\ [][NextMount]_vars

----------------------------------------------------------------------------
(* useDebouncedLocalStorage: hooks/useLocalStorage.ts *)

\* persist is here the state of one useDebouncedLocalStorage(key, initialValue,
\* delay): storedValue, debounceTimerRef.current (0 models null), the timers set
\* with setTimeout and neither run nor cleared (handle and valueToStore of each),
\* the item under `key` in localStorage (0: none), and, observed: the calls of
\* setValue so far, their number since the last setItem call, the value of the last
\* of them, the setItem calls so far and the value given to the last of them.

\* setValue calls of one run of the model.
MaxCalls == 3
\* The values the application stores.
Values == {1, 2}

\* The loop variables in the specifications of the persistence layer.
NoLoop ==
    /\ isPlaying = FALSE
    /\ width = 1 /\ height = 1
    /\ stepsPerFrame = 1
    /\ params = TypicalParams
    /\ seedType = "center"
    /\ dt = One
    /\ rendered = Current
    /\ effectDeps = Current
    /\ effectsPending = FALSE
    /\ stateRef = Null
    /\ paramsRef = params
    /\ stepsPerFrameRef = 1
    /\ animationFrameRef = 0
    /\ frames = {}
    /\ timerPending = FALSE
    /\ hidden = FALSE
    /\ listener = FALSE
    /\ pauseCalled = FALSE
    /\ last = Did("mount", 0, 0)

\* The hook mounted: useState(initialValue), then the effect that reads the item.
InitStorage ==
    /\ NoLoop
    /\ \E initialValue \in Values, item \in {0} \cup Values :
          persist = [mounted |-> TRUE,
                     storedValue |-> IF item # 0 THEN item ELSE initialValue,
                     debounceTimerRef |-> 0, timers |-> {}, item |-> item,
                     calls |-> 0, unwritten |-> 0, lastValue |-> 0,
                     writes |-> 0, setItemValue |-> 0]

\* setValue(value) that leaves the timer of the earlier call running.
setValueKeepsTimer(value) ==
    /\ persist.mounted
    /\ persist.calls < MaxCalls
    /\ persist' = [persist EXCEPT
                     !.storedValue = value,
                     !.timers = @ \cup {[id |-> persist.calls + 1, value |-> value]},
                     !.debounceTimerRef = persist.calls + 1,
                     !.calls = @ + 1, !.unwritten = @ + 1, !.lastValue = value]
    /\ UNCHANGED <<isPlaying, width, height, stepsPerFrame, params, seedType, dt, rendered,
                   effectDeps, effectsPending, stateRef, paramsRef, stepsPerFrameRef,
                   animationFrameRef, frames, timerPending, hidden, listener, pauseCalled,
                   last>>

\* setValue(value): setStoredValue, clearTimeout of the timer the ref holds, and a
\* new timer for this value, its handle (never one used before) kept in the ref.
setValue(value) ==
    /\ persist.mounted
    /\ persist.calls < MaxCalls
    /\ persist' = [persist EXCEPT
                     !.storedValue = value,
                     !.timers = {t \in @ : t.id # persist.debounceTimerRef}
                                  \cup {[id |-> persist.calls + 1, value |-> value]},
                     !.debounceTimerRef = persist.calls + 1,
                     !.calls = @ + 1, !.unwritten = @ + 1, !.lastValue = value]
    /\ UNCHANGED <<isPlaying, width, height, stepsPerFrame, params, seedType, dt, rendered,
                   effectDeps, effectsPending, stateRef, paramsRef, stepsPerFrameRef,
                   animationFrameRef, frames, timerPending, hidden, listener, pauseCalled,
                   last>>

\* The application stores a value.
store == \E value \in Values : setValue(value)

\* The callback of a timer, `delay` after it was set: localStorage.setItem(key,
\* JSON.stringify(valueToStore)); an exception of setItem (quota exceeded) is caught
\* and leaves the item as it was.  The ref keeps the handle.
timeout ==
    \E t \in persist.timers, stored \in BOOLEAN :
       /\ persist' = [persist EXCEPT
                        !.timers = @ \ {t},
                        !.item = IF stored THEN t.value ELSE @,
                        !.writes = @ + 1, !.setItemValue = t.value, !.unwritten = 0]
       /\ UNCHANGED <<isPlaying, width, height, stepsPerFrame, params, seedType, dt,
                      rendered, effectDeps, effectsPending, stateRef, paramsRef,
                      stepsPerFrameRef, animationFrameRef, frames, timerPending, hidden,
                      listener, pauseCalled, last>>

\* The cleanup of the hook at unmount: clearTimeout of the timer the ref holds.
unmount ==
    /\ persist.mounted
    /\ persist' = [persist EXCEPT
                     !.mounted = FALSE,
                     !.timers = {t \in @ : t.id # persist.debounceTimerRef}]
    /\ UNCHANGED <<isPlaying, width, height, stepsPerFrame, params, seedType, dt, rendered,
                   effectDeps, effectsPending, stateRef, paramsRef, stepsPerFrameRef,
                   animationFrameRef, frames, timerPending, hidden, listener, pauseCalled,
                   last>>

NextStorage == store \/ timeout \/ unmount

\* The host runs the callback of a timer that stays set.
SpecStorage == InitStorage /\ [][NextStorage]_vars /\ WF_vars(timeout)

----------------------------------------------------------------------------
(* Shareable links: lib/persistence.ts *)

\* Strings that are converted are sequences of characters; a parsed number is <<n>>,
\* NaN is <<>>.  The params are fixed-point numbers (One units to 1.0).
DigitChars == <<"0", "1", "2", "3", "4", "5", "6", "7", "8", "9">>
IsDigit(c) == \E d \in 1..10 : DigitChars[d] = c
DigitValue(c) == (CHOOSE d \in 1..10 : DigitChars[d] = c) - 1

\* (n).toString() of a non-negative integer.
RECURSIVE IntToString(_)
IntToString(n) ==
    IF n < 10 THEN <<DigitChars[n + 1]>>
    ELSE Append(IntToString(n \div 10), DigitChars[(n % 10) + 1])

\* The decimal digits of the fraction r / One, at most `left` of them.
RECURSIVE FractionDigits(_, _)
FractionDigits(r, left) ==
    IF r = 0 \/ left = 0 THEN <<>>
    ELSE <<DigitChars[((10 * r) \div One) + 1]>> \o FractionDigits((10 * r) % One, left - 1)

\* Significant digits Number.prototype.toString gives at most.
MaxDigits == 17
\* (x).toString() of a number in [0, 1]: "0", "0.25", "1".
NumberToString(x) ==
    IF x % One = 0 THEN IntToString(x \div One)
    ELSE IntToString(x \div One) \o <<".">> \o FractionDigits(x % One, MaxDigits)

\* The longest prefix of str made of digits.
RECURSIVE DigitPrefix(_)
DigitPrefix(str) ==
    IF str = <<>> \/ ~IsDigit(Head(str)) THEN <<>>
    ELSE <<Head(str)>> \o DigitPrefix(Tail(str))

\* The integer a sequence of digits denotes.
RECURSIVE DigitsValue(_)
DigitsValue(digits) ==
    IF digits = <<>> THEN 0
    ELSE 10 * DigitsValue(SubSeq(digits, 1, Len(digits) - 1)) + DigitValue(digits[Len(digits)])

RECURSIVE Power10(_)
Power10(n) == IF n = 0 THEN 1 ELSE 10 * Power10(n - 1)

\* parseInt(str, 10): the digits str begins with.
parseInt(str) ==
    IF DigitPrefix(str) = <<>> THEN <<>> ELSE <<One * DigitsValue(DigitPrefix(str))>>

\* A parseFloat that stops at the point.
parseFloatWhole(str) ==
    IF DigitPrefix(str) = <<>> THEN <<>> ELSE <<One * DigitsValue(DigitPrefix(str))>>

\* parseFloat(str): the digits str begins with, a point and the digits after it.
parseFloat(str) ==
    LET int == DigitPrefix(str)
        rest == SubSeq(str, Len(int) + 1, Len(str))
        frac == IF rest # <<>> /\ Head(rest) = "." THEN DigitPrefix(Tail(rest)) ELSE <<>>
    IN  IF int = <<>> /\ frac = <<>> THEN <<>>
        ELSE <<One * DigitsValue(int) + RoundDiv(One * DigitsValue(frac), Power10(Len(frac)))>>

\* stateToUrlParams(state) for a state with all its fields: the URLSearchParams as a
\* function from the keys set to their strings.  palette and seed are set when the
\* name is not the empty string.
stateToUrlParams(state) ==
    LET numbers == [du |-> NumberToString(state.params.du),
                    dv |-> NumberToString(state.params.dv),
                    f |-> NumberToString(state.params.f),
                    k |-> NumberToString(state.params.k),
                    resolution |-> IntToString(state.resolution),
                    speed |-> IntToString(state.stepsPerFrame)]
        names == [palette |-> state.paletteName, seed |-> state.seedType]
    IN  [key \in DOMAIN numbers \cup {n \in DOMAIN names : names[n] # ""} |->
           IF key \in DOMAIN numbers THEN numbers[key] ELSE names[key]]

\* urlParams.get(key): the string, or <<>> (null, and the empty string, both falsy).
Get(urlParams, key) == IF key \in DOMAIN urlParams THEN urlParams[key] ELSE <<>>

LinkResolutions == {128, 256, 512}
PaletteNames == {"Fire", "Cool", "Green"}
paletteMap ==
    [Inferno |-> "Fire", Electric |-> "Cool", Plasma |-> "Green",
     Fire |-> "Fire", Cool |-> "Cool", Green |-> "Green"]
InUnit(n) == n # <<>> /\ n[1] >= 0 /\ n[1] <= One

\* urlParamsToState(urlParams): the fields it sets, each as <<value>>, or <<>> when
\* it leaves the field out.
urlParamsToState(urlParams) ==
    LET du == Get(urlParams, "du")
        dv == Get(urlParams, "dv")
        f == Get(urlParams, "f")
        k == Get(urlParams, "k")
        duNum == parseFloat(du)
        dvNum == parseFloat(dv)
        fNum == parseFloat(f)
        kNum == parseFloat(k)
        resNum == parseInt(Get(urlParams, "resolution"))
        palette == IF "palette" \in DOMAIN urlParams THEN urlParams["palette"] ELSE ""
        speedNum == parseInt(Get(urlParams, "speed"))
        seed == IF "seed" \in DOMAIN urlParams THEN urlParams["seed"] ELSE ""
    IN  [params |->
           IF /\ du # <<>> /\ dv # <<>> /\ f # <<>> /\ k # <<>>
              /\ InUnit(duNum) /\ InUnit(dvNum) /\ InUnit(fNum) /\ InUnit(kNum)
           THEN <<[du |-> duNum[1], dv |-> dvNum[1], f |-> fNum[1], k |-> kNum[1]]>>
           ELSE <<>>,
         resolution |->
           IF resNum # <<>> /\ resNum[1] \in {One * r : r \in LinkResolutions}
           THEN <<resNum[1] \div One>> ELSE <<>>,
         paletteName |->
           IF palette \in DOMAIN paletteMap THEN <<paletteMap[palette]>> ELSE <<>>,
         stepsPerFrame |->
           IF speedNum # <<>> /\ speedNum[1] >= One /\ speedNum[1] <= MaxSpeed * One
           THEN <<speedNum[1] \div One>> ELSE <<>>,
         seedType |-> IF seed \in SeedTypes THEN <<seed>> ELSE <<>>]

\* The states shared: the params of the range and one above it, the resolutions of
\* the application and one it does not offer, the palettes and a name of none,
\* speeds in and out of 1..10.
LinkParams ==
    {[du |-> a, dv |-> b, f |-> c, k |-> c] :
        a \in {0, Quarter, Half, One, One + Quarter}, b \in {Quarter, One}, c \in {0, Half}}
LinkStates ==
    [params : LinkParams, resolution : LinkResolutions \cup {100},
     paletteName : PaletteNames \cup {"Neon"}, stepsPerFrame : {1, MaxSpeed, MaxSpeed + 1},
     seedType : SeedTypes]

\* persist is here a link being shared: the state of the sender, the URLSearchParams
\* made of it (<<>>: not yet), and the state the receiver parses (<<>>: not yet).
InitLink ==
    /\ NoLoop
    /\ \E state \in LinkStates : persist = [state |-> state, url |-> <<>>, parsed |-> <<>>]

\* The sender's URL is made: stateToUrlParams.
share ==
    /\ persist.url = <<>>
    /\ persist' = [persist EXCEPT !.url = <<stateToUrlParams(persist.state)>>]
    /\ UNCHANGED <<isPlaying, width, height, stepsPerFrame, params, seedType, dt, rendered,
                   effectDeps, effectsPending, stateRef, paramsRef, stepsPerFrameRef,
                   animationFrameRef, frames, timerPending, hidden, listener, pauseCalled,
                   last>>

\* The receiver opens the link: urlParamsToState.
open ==
    /\ persist.url # <<>> /\ persist.parsed = <<>>
    /\ persist' = [persist EXCEPT !.parsed = <<urlParamsToState(persist.url[1])>>]
    /\ UNCHANGED <<isPlaying, width, height, stepsPerFrame, params, seedType, dt, rendered,
                   effectDeps, effectsPending, stateRef, paramsRef, stepsPerFrameRef,
                   animationFrameRef, frames, timerPending, hidden, listener, pauseCalled,
                   last>>

NextLink == share \/ open

SpecLink == InitLink /\ [][NextLink]_vars

----------------------------------------------------------------------------
(* The loop while the parameters are updated *)

\* { ...old, ...new }
Spread(old, new) ==
    [key \in DOMAIN old \cup DOMAIN new |-> IF key \in DOMAIN new THEN new[key] ELSE old[key]]

\* What a call of one of the hook's other functions did: its name and its render()
\* calls that drew the field.
Called(name, renders) == [op |-> name, steps |-> 0, renders |-> renders]

\* An updateParams that takes an engine step with the new set.
updateParamsSteps(newParams) ==
    /\ paramsRef' = Spread(paramsRef, newParams)
    /\ stateRef' = StepTimes(stateRef, paramsRef', rendered.dt, BatchStepsOnce(stateRef, 1))
    /\ last' = Called("updateParams", 0)
    /\ UNCHANGED <<persist, isPlaying, width, height, stepsPerFrame, params, seedType, dt, rendered,
                   effectDeps, effectsPending, stepsPerFrameRef,
                   animationFrameRef, frames, timerPending, hidden, listener, pauseCalled>>

\* updateParams(newParams): paramsRef.current = { ...paramsRef.current, ...newParams }.
updateParams(newParams) ==
    /\ paramsRef' = Spread(paramsRef, newParams)
    /\ last' = Called("updateParams", 0)
    /\ UNCHANGED <<persist, isPlaying, width, height, stepsPerFrame, params, seedType, dt, rendered,
                   effectDeps, effectsPending, stateRef, stepsPerFrameRef,
                   animationFrameRef, frames, timerPending, hidden, listener, pauseCalled>>

\* The updates made: du alone.
NewParams == {[du |-> One]}
update == \E newParams \in NewParams : updateParams(newParams)

\* A render with a new params prop (setParams of the application).
setParams ==
    /\ RenderWith({<<width, height>>}, {stepsPerFrame}, {TypicalParams, Diffusion(One)})
    /\ params' # params

\* The component mounted with the centre pattern on the largest grid.
InitParams ==
    /\ Init
    /\ width = MaxSide /\ height = MaxSide
    /\ seedType = "center"

NextParams ==
    \/ play
    \/ step
    \/ animate
    \/ timer
    \/ update
    \/ setParams
    \/ Render
    \/ FlushEffects

SpecParams == InitParams /\ [][NextParams]_vars

\* The functions of the mounted hook that draw or export: the palette is read by
\* render() alone and is no part of the state followed here.
Held == <<persist, isPlaying, width, height, stepsPerFrame, params, seedType, dt, rendered,
          effectDeps, effectsPending, stateRef, paramsRef, stepsPerFrameRef,
          animationFrameRef, frames, timerPending, hidden, listener, pauseCalled>>

\* updatePalette(newPalette) on the mounted hook: paletteRef.current = newPalette,
\* then render().
paletteUpdate == last' = Called("updatePalette", render(stateRef)) /\ UNCHANGED Held

\* render() called by itself: the canvas is drawn from u and v.
renderCall == last' = Called("render", render(stateRef)) /\ UNCHANGED Held

\* exportPNG() on the mounted hook: a link to canvas.toDataURL is clicked.
pngExport == last' = Called("exportPNG", 0) /\ UNCHANGED Held

NextCalls ==
    \/ play
    \/ pause
    \/ step
    \/ reset
    \/ animate
    \/ timer
    \/ update
    \/ paletteUpdate
    \/ renderCall
    \/ pngExport
    \/ Render
    \/ FlushEffects

SpecCalls == InitParams /\ [][NextCalls]_vars

----------------------------------------------------------------------------
(* The loop under every operation and every change of its props *)

\* A render with a new dt prop, 0.5 or 1.
setDt ==
    \E d \in {Half, One} :
       /\ ~effectsPending
       /\ d # dt
       /\ dt' = d
       /\ rendered' = [Current EXCEPT !.dt = d]
       /\ effectsPending' = TRUE
       /\ last' = Did("render", 0, 0)
       /\ UNCHANGED <<persist, isPlaying, width, height, stepsPerFrame, params, seedType,
                      effectDeps, stateRef, paramsRef, stepsPerFrameRef, animationFrameRef,
                      frames, timerPending, hidden, listener, pauseCalled>>

\* Parameters under which the field moves least, the requests being what is
\* followed here.
StillParams == [du |-> 0, dv |-> 0, f |-> 0, k |-> 0]

\* The sizes given: a square grid and one a column narrower.
ScheduleSizes == {<<MaxSide, MaxSide>>, <<MaxSide - 1, MaxSide>>}

\* A render with a new size or speed prop.
setProps ==
    /\ RenderWith(ScheduleSizes, StepsChoices, {params})
    /\ <<width', height', stepsPerFrame'>> # <<width, height, stepsPerFrame>>

\* The component mounted with the centre pattern: first render and its effects
\* done, nothing playing.
InitSchedule ==
    /\ persist = NoPersistence
    /\ isPlaying = FALSE
    /\ \E size \in ScheduleSizes : width = size[1] /\ height = size[2]
    /\ stepsPerFrame \in StepsChoices
    /\ params = StillParams
    /\ seedType = "center"
    /\ dt = One
    /\ rendered = Current
    /\ effectDeps = Current
    /\ effectsPending = FALSE
    /\ stateRef \in createSimulationState(width, height, seedType)
    /\ paramsRef = params
    /\ stepsPerFrameRef = stepsPerFrame
    /\ animationFrameRef = 0
    /\ frames = {}
    /\ timerPending = TRUE
    /\ hidden = FALSE
    /\ listener = FALSE
    /\ pauseCalled = FALSE
    /\ last = Did("mount", 0, 2)

NextSchedule ==
    \/ play
    \/ pause
    \/ step
    \/ reset
    \/ randomSeed
    \/ animate
    \/ visibilitychange
    \/ timer
    \/ Render
    \/ setProps
    \/ setDt
    \/ FlushEffects

SpecSchedule == InitSchedule /\ [][NextSchedule]_vars

----------------------------------------------------------------------------
(* The loop with the scheduling of the host *)

\* The loop in a document that stays visible (the host runs no frame of a hidden
\* one), with the scheduling the host and React provide: a state change is
\* eventually rendered, the effects of a render eventually run, and a requested
\* frame is eventually run. The last conjunct is WF_vars(animate) with
\* ENABLED <<animate>>_vars written out: animate can run, and changes frames, exactly
\* when a frame is requested.
NextVisible ==
    \/ play
    \/ pause
    \/ step
    \/ reset
    \/ randomSeed
    \/ animate
    \/ timer
    \/ Render
    \/ FlushEffects

SpecFair ==
    /\ Init
    /\ [][NextVisible]_vars
    /\ WF_vars(Render)
    /\ WF_vars(FlushEffects)
    /\ ([]<>(frames = {}) \/ []<><<animate>>_vars)

----------------------------------------------------------------------------
(* Properties *)

\* C1 (as claimed): once pause() has been called on a Running loop, and until the
\* next play(), no requested frame runs animate and no operation other than step()
\* calls stepSimulation.
C1_NoTickAfterPause ==
    [][pauseCalled => (last'.op # "animate" /\ (last'.steps > 0 => last'.op = "step"))]_vars

\* C2 (as claimed): a visibility event that reports the view hidden leaves the loop
\* Stopped, and a Stopped loop becomes Running only by play().
C2_HiddenStopsLoop ==
    [][/\ (~hidden /\ hidden') => ~isPlaying'
       /\ (~isPlaying /\ isPlaying') => play]_vars

\* C3: play() leaves the loop Running and pause() leaves it Stopped, whatever the
\* state they are called in (so a second call changes nothing the first did not),
\* and neither requests nor cancels a frame.
C3_PlayPauseIdempotent ==
    [][/\ play => (isPlaying' /\ frames' = frames /\ animationFrameRef' = animationFrameRef)
       /\ pause => (~isPlaying' /\ frames' = frames /\ animationFrameRef' = animationFrameRef)
       /\ (play \/ pause) => (stateRef' = stateRef /\ last'.steps = 0 /\ last'.renders = 0)]_vars

\* C3 witness: pause() has been called on a Running loop and has not been rendered
\* yet; the frame the loop requested is still requested.
C3_Witness ==
    /\ pauseCalled /\ ~isPlaying /\ rendered.isPlaying /\ ~effectsPending
    /\ Cardinality(frames) = 1 /\ last.steps = 0 /\ last.renders = 0

\* C4: step() makes exactly stepsPerFrameRef.current stepSimulation calls and one
\* render, and leaves isPlaying, the requested frames and the frame handle alone.
C4_StepBatch ==
    [][last'.op = "step" =>
         /\ last'.steps = stepsPerFrameRef
         /\ last'.renders = 1
         /\ isPlaying' = isPlaying
         /\ frames' = frames
         /\ animationFrameRef' = animationFrameRef]_vars

\* C4 witness: step() was called while the loop is Running with a frame requested,
\* at the largest speed.
C4_Witness ==
    /\ last.op = "step" /\ last.steps = MaxStepsPerFrame
    /\ isPlaying /\ rendered.isPlaying /\ frames # {}

\* C5: while the loop is Running, a frame that runs makes exactly
\* stepsPerFrameRef.current stepSimulation calls and one render and requests exactly
\* one frame in its place, whose handle the ref holds; and if the loop stays
\* Running, frames keep running for ever.
C5_TickBatch ==
    /\ [][(isPlaying /\ last'.op = "animate") =>
            /\ last'.steps = stepsPerFrameRef
            /\ last'.renders = 1
            /\ Cardinality(frames') = Cardinality(frames)
            /\ Cardinality(frames' \ frames) = 1
            /\ \A fr \in frames' \ frames : fr.id = animationFrameRef']_vars
    /\ (<>[]isPlaying => []<><<animate>>_vars)

\* C5 witness: a frame has run on a Running loop at the largest speed.
C5_Witness ==
    /\ last.op = "animate" /\ last.steps = MaxStepsPerFrame
    /\ isPlaying /\ Cardinality(frames) = 1

\* C6: reset() leaves a field that createSimulationState gives for the configured
\* pattern, randomSeed() one it gives for 'random'; both render once, call
\* stepSimulation never and leave isPlaying alone.
C6_Reseed ==
    [][/\ last'.op = "reset" =>
            stateRef' \in createSimulationState(stateRef.width, stateRef.height, seedType)
       /\ last'.op = "randomSeed" =>
            stateRef' \in createSimulationState(stateRef.width, stateRef.height, "random")
       /\ last'.op \in {"reset", "randomSeed"} =>
            (last'.steps = 0 /\ last'.renders = 1 /\ isPlaying' = isPlaying
             /\ frames' = frames)]_vars

\* C6 witness: randomSeed() was called on a Running loop configured with another
\* pattern.
C6_Witness ==
    /\ last.op = "randomSeed" /\ seedType # "random" /\ isPlaying /\ frames # {}

\* The effects of a render run in this step.
Flushing == effectsPending /\ ~effectsPending'

\* The size of the field differs from the size rendered.
SizeDiffers == <<stateRef.width, stateRef.height>> # <<rendered.width, rendered.height>>

\* C7: when the effects run, the field is replaced by one createSimulationState
\* gives for the requested size if its width or height differs from it, and is kept
\* as it is otherwise; no other step changes the size of the field.
C7_FreshFieldOnResize ==
    [][/\ (Flushing /\ SizeDiffers) =>
            stateRef' \in createSimulationState(rendered.width, rendered.height, seedType)
       /\ (Flushing /\ ~SizeDiffers) => stateRef' = stateRef
       /\ ~Flushing => (stateRef'.width = stateRef.width /\ stateRef'.height = stateRef.height)
      ]_vars

\* C7 witness: after the loop has run and been paused, the effects of a render with
\* a new size have run (two renders: the render effect and the palette update); the
\* field has the new size, which differs from the old one in one dimension only.
C7_Witness ==
    /\ ~effectsPending /\ last.renders = 2 /\ timerPending
    /\ pauseCalled /\ ~isPlaying /\ frames = {}
    /\ stateRef.width = width /\ stateRef.height = height /\ width # height

C9_InUnitRange ==
    \A i \in DOMAIN stateRef.u :
       /\ stateRef.u[i] # NaN /\ 0 <= stateRef.u[i] /\ stateRef.u[i] <= One
       /\ stateRef.v[i] # NaN /\ 0 <= stateRef.v[i] /\ stateRef.v[i] <= One

\* C10: u and v both have one element for each of the width * height cells; step and
\* reset keep width and height; after a reset every cell holds a pair a fresh field
\* can hold (rest or seeded) in u and v together.
C10_Shape ==
    /\ [](/\ DOMAIN stateRef.u = 0..(stateRef.width * stateRef.height - 1)
          /\ DOMAIN stateRef.v = DOMAIN stateRef.u)
    /\ [][/\ stateRef'.width = stateRef.width /\ stateRef'.height = stateRef.height
          /\ last'.op = "reset" =>
               \A i \in DOMAIN stateRef'.u :
                  <<stateRef'.u[i], stateRef'.v[i]>> \in {<<One, 0>>, <<Half, Quarter>>}]_vars

\* C10 witness: a field reset after the engine has stepped it as often as the model
\* allows, away from every pair a fresh field holds.
C10_Witness == last.op = "reset" /\ last.steps = MaxEngineSteps

\* The cells in the reverse of the order the loops visit them.
Reversed(order) == [i \in 1..Len(order) |-> order[Len(order) + 1 - i]]

\* C11: the field stepSimulation leaves is the one its loops leave when they fill
\* uNew and vNew cell by cell, and every cell of it is the clamped Euler update
\* computed from the u, v and Laplacians of the field before the step; a pass over
\* the cells in the reverse order leaves the same field.
C11_PreStepField ==
    [][last'.op = "step" =>
         /\ stateRef' = StepInOrder(stateRef, params, dt, RowMajor(width, height))
         /\ stateRef' = StepInOrder(stateRef, params, dt, Reversed(RowMajor(width, height)))
         /\ \A idx \in DOMAIN stateRef.u :
               /\ stateRef'.u[idx] = StepU(stateRef, params, dt, idx)
               /\ stateRef'.v[idx] = StepV(stateRef, params, dt, idx)]_vars

\* C11 witness: a second step has been taken on a field whose cells differ, so that
\* a neighbour already updated would have been read with another value.
C11_Witness ==
    /\ last.op = "step" /\ last.steps >= 2 /\ params = TypicalParams /\ dt = One
    /\ \E i, j \in DOMAIN stateRef.u : stateRef.u[i] # stateRef.u[j]

Cell(x, y) == y * stateRef.width + x

\* create(4, 4, 'center') stepped once with the default params and dt = 1.0.
Scenario4x4 ==
    /\ width = 4 /\ height = 4 /\ seedType = "center"
    /\ params = DefaultParams /\ dt = One /\ last.steps = 1

Block4x4 == {Cell(1, 1), Cell(1, 2), Cell(2, 1), Cell(2, 2)}
Corners4x4 == {Cell(0, 0), Cell(3, 0), Cell(0, 3), Cell(3, 3)}

Wrap(n, size) == ((n % size) + size) % size

\* The idx of the cells ((x-1) mod w, y), ((x+1) mod w, y), (x, (y-1) mod h) and
\* (x, (y+1) mod h).
PeriodicNeighbours(w, h, x, y) ==
    <<y * w + Wrap(x - 1, w), y * w + Wrap(x + 1, w),
      Wrap(y - 1, h) * w + x, Wrap(y + 1, h) * w + x>>

\* The stencil over those four cells.
PeriodicStencil(grid, w, h, x, y) ==
    LET n == PeriodicNeighbours(w, h, x, y)
    IN  Sub(Add(Add(Add(grid[n[1]], grid[n[2]]), grid[n[3]]), grid[n[4]]),
            Mul(4 * One, grid[y * w + x]))

\* C12: a step reads, for every cell (x, y), the four neighbours ((x-1) mod width, y),
\* ((x+1) mod width, y), (x, (y-1) mod height), (x, (y+1) mod height), all of them
\* cells of the grid; and the first step of a field at rest perturbed in cell (0,0)
\* changes cell (width-1, 0) by the amount by which the first step of the field with
\* the same perturbation in cell (1,0) changes cell (0,0).
C12_PeriodicNeighbours ==
    [][last'.op = "step" =>
         /\ \A x \in 0..(width - 1), y \in 0..(height - 1) :
               /\ \A i \in 1..4 : PeriodicNeighbours(width, height, x, y)[i] \in DOMAIN stateRef.u
               /\ laplacian(stateRef.u, width, height, x, y)
                    = PeriodicStencil(stateRef.u, width, height, x, y)
               /\ laplacian(stateRef.v, width, height, x, y)
                    = PeriodicStencil(stateRef.v, width, height, x, y)
         /\ (/\ last.steps = 0 /\ width >= 2
             /\ stateRef = Perturbed(width, height, 0, stateRef.u[0], stateRef.v[0]))
            => LET base == stepSimulation(Perturbed(width, height, 0, One, 0), params, dt)
                   other == stepSimulation(
                               Perturbed(width, height, 1, stateRef.u[0], stateRef.v[0]),
                               params, dt)
               IN  /\ Sub(stateRef'.u[width - 1], base.u[width - 1])
                        = Sub(other.u[0], base.u[0])
                   /\ Sub(stateRef'.v[width - 1], base.v[width - 1])
                        = Sub(other.v[0], base.v[0])]_vars

\* C12 witness: the first step of a three-cell row perturbed in cell (0,0) has
\* changed both neighbours, (1,0) and (width-1,0), and by the same amount.
C12_Witness ==
    /\ last.op = "step" /\ last.steps = 1 /\ width = 3 /\ height = 1
    /\ stateRef.u[width - 1] < One /\ stateRef.u[1] = stateRef.u[width - 1]
    /\ stateRef.u[0] < stateRef.u[1]

\* grid[0] + ... + grid[n - 1]
RECURSIVE SumCells(_, _)
SumCells(grid, n) == IF n = 0 THEN 0 ELSE grid[n - 1] + SumCells(grid, n - 1)

\* The sum of u over the whole grid.
SumU(state) == SumCells(state.u, state.width * state.height)

\* f = k = 0 and v = 0 in every cell: u only diffuses.
DiffusionOnly ==
    /\ params.f = 0 /\ params.k = 0
    /\ \A idx \in DOMAIN stateRef.v : stateRef.v[idx] = 0

\* Two sums of u that differ by no more than the rounding of the stored cells (one
\* unit of the last place for each).
WithinRounding(a, b) ==
    /\ a - b <= width * height
    /\ b - a <= width * height

\* C13 (as claimed): with f = k = 0 and v = 0 everywhere, every step of a field that
\* began with u = 1 in every cell but one leaves the sum of u over the grid the same,
\* up to rounding.
C13_MassConserved ==
    [][(last'.op = "step" /\ DiffusionOnly) => WithinRounding(SumU(stateRef'), SumU(stateRef))]_vars

\* C13 (amended): the same, for 0 <= 4 * du * dt <= 1, where no cell leaves [0, 1]
\* and the clamp changes nothing.
C13_MassConservedUnclamped ==
    [][(/\ last'.op = "step" /\ DiffusionOnly
        /\ Mul(4 * One, Mul(params.du, dt)) \in 0..One)
         => WithinRounding(SumU(stateRef'), SumU(stateRef))]_vars

\* C13 witness: two steps of pure diffusion with 4 * du * dt = 1 on a 3x3 field whose
\* one lowered cell they have moved about, the missing u still missing.
C13_Witness ==
    /\ last.op = "step" /\ last.steps = 2 /\ DiffusionOnly
    /\ Mul(4 * One, Mul(params.du, dt)) = One
    /\ width = 3 /\ height = 3
    /\ \E i, j \in DOMAIN stateRef.u : stateRef.u[i] < stateRef.u[j]
    /\ SumU(stateRef) < width * height * One

\* C16: a reset with the center or the multiple pattern, after any number of steps
\* with any params, leaves the field with its width and height and with the u and v,
\* cell for cell, of a fresh createSimulationState(width, height, pattern).
C16_ResetIsFreshCreate ==
    [][(last'.op = "reset" /\ seedType' \in {"center", "multiple"}) =>
         /\ stateRef'.width = stateRef.width /\ stateRef'.height = stateRef.height
         /\ \A fresh \in createSimulationState(stateRef.width, stateRef.height, seedType') :
               /\ stateRef'.u = fresh.u
               /\ stateRef'.v = fresh.v]_vars

\* C16 witness: the multiple pattern restored by a reset in a field the engine had
\* stepped as often as the model allows.
C16_Witness ==
    /\ last.op = "reset" /\ last.steps = MaxEngineSteps /\ seedType = "multiple"
    /\ stateRef = SeedCells(width, height, MultipleCells(width, height))

\* Cell (x, y) of the current field is seeded: u = 0.5 and v = 0.25.
Seeded(x, y) ==
    /\ stateRef.u[y * stateRef.width + x] = Half
    /\ stateRef.v[y * stateRef.width + x] = Quarter

\* C19: a field just seeded with the random pattern (by create or by reset) has a
\* cell, the centre of one of its circles, such that every cell of the grid nearer
\* to it than the least radius, 5, is seeded, the centre cell itself among them.
C19_RandomCirclesSeeded ==
    (last.op \in {"create", "reset"} /\ seedType = "random") =>
       \E x \in 0..(width - 1), y \in 0..(height - 1) :
          \A cx \in 0..(width - 1), cy \in 0..(height - 1) :
             (cx - x) * (cx - x) + (cy - y) * (cy - y) < MinRadius * MinRadius
                => Seeded(cx, cy)

\* C20: a field just created with the center pattern has u = 0.5, v = 0.25 in exactly
\* the cells (x, y) whose distance to (floor(width / 2), floor(height / 2)) is less
\* than 0.1 * min(width, height), and u = 1, v = 0 in every other cell.
C20_CenterDisc ==
    (last.op = "create" /\ seedType = "center") =>
       \A x \in 0..(width - 1), y \in 0..(height - 1) :
          LET dx == x - (width \div 2)
              dy == y - (height \div 2)
              idx == y * width + x
          IN  IF 100 * (dx * dx + dy * dy) < Min(width, height) * Min(width, height)
              THEN stateRef.u[idx] = Half /\ stateRef.v[idx] = Quarter
              ELSE stateRef.u[idx] = One /\ stateRef.v[idx] = 0

\* C20 witness: the center pattern on an 11x10 field, radius 1.0: the centre cell
\* (5, 5) seeded, the cells at distance 1 from it at rest.
C20_Witness ==
    /\ last.op = "create" /\ seedType = "center" /\ width = 11 /\ height = 10
    /\ Seeded(5, 5) /\ ~Seeded(4, 5) /\ ~Seeded(5, 6)

\* A width or height createSimulationState is to reject: not positive, or no integer.
InvalidDimension(n) == n <= 0 \/ n % One # 0

\* C17: createSimulationState called (by the dimension effect) with a width or height
\* that is not positive or not an integer throws an InvalidDimensions error and
\* there is no field afterwards.
C17_InvalidDimensionsRejected ==
    (last.op = "mount" /\ (InvalidDimension(width) \/ InvalidDimension(height))) =>
       /\ last.error = "InvalidDimensions"
       /\ stateRef = Null

\* C18: a render() (through updatePalette) or an exportPNG() called while there is no
\* field throws a NotInitialized error.
C18_NotInitializedRejected ==
    (last.op \in {"updatePalette", "exportPNG"} /\ stateRef = Null) =>
       last.error = "NotInitialized"

\* C21 (as claimed): a field just created with the multiple pattern has u = 0.5,
\* v = 0.25 in exactly the cells whose distance to one of the nine points
\* (i * width / 4, j * height / 4), i, j in 1..3, is less than
\* 0.15 * min(width / 4, height / 4), and u = 1, v = 0 in every other cell.
C21_MultipleDiscs ==
    (last.op = "create" /\ seedType = "multiple") =>
       \A x \in 0..(width - 1), y \in 0..(height - 1) :
          IF \E i \in 1..3, j \in 1..3 :
                400 * ((4 * x - i * width) * (4 * x - i * width)
                        + (4 * y - j * height) * (4 * y - j * height))
                  < 9 * Min(width, height) * Min(width, height)
          THEN Seeded(x, y)
          ELSE stateRef.u[y * width + x] = One /\ stateRef.v[y * width + x] = 0

\* C21 (amended): the same with the nine centres at the cells
\* (floor(i * width / 4), floor(j * height / 4)).
C21_MultipleDiscsFloored ==
    (last.op = "create" /\ seedType = "multiple") =>
       \A x \in 0..(width - 1), y \in 0..(height - 1) :
          IF \E i \in 1..3, j \in 1..3 :
                LET dx == x - ((i * width) \div 4)
                    dy == y - ((j * height) \div 4)
                IN  6400 * (dx * dx + dy * dy) < 9 * Min(width, height) * Min(width, height)
          THEN Seeded(x, y)
          ELSE stateRef.u[y * width + x] = One /\ stateRef.v[y * width + x] = 0

\* C21 witness: the multiple pattern on a 5x8 field: the cell (1, 2) of the centre
\* (floor(1.25), 2) seeded, its neighbour (2, 2) of the centre (floor(2.5), 2) too,
\* the cell (0, 2) at rest.
C21_Witness ==
    /\ last.op = "create" /\ seedType = "multiple" /\ width = 5 /\ height = 8
    /\ Seeded(1, 2) /\ Seeded(2, 2) /\ ~Seeded(0, 2) /\ ~Seeded(1, 3)

\* C22: once the Escape shortcut has been handled the loop is Stopped (isPlaying is
\* false), whether it was Running or Stopped when the key was pressed.
C22_EscapePauses ==
    [][last'.op = "escape" => ~isPlaying']_vars

\* C23: every batch of the loop, of a frame or of a manual step(), makes a number of
\* stepSimulation calls that is an integer in 1..10.
C23_StepsPerTickInRange ==
    last.op \in {"step", "animate"} => last.steps \in 1..MaxSpeed

\* C24: at most one timer (pending write) is set at any time; a setValue call that
\* finds one set cancels it without a write; every setItem call follows at least
\* one setValue call not yet written and is given the value of the last of them, so
\* that a burst of calls, each before the timer of the one before has run, causes
\* one write, of the last value; and while the hook stays mounted that write comes.
C24_Debounced ==
    /\ [](Cardinality(persist.timers) <= 1)
    /\ [][(persist'.calls = persist.calls + 1 /\ persist.timers # {}) =>
            /\ persist'.timers \cap persist.timers = {}
            /\ persist'.writes = persist.writes
            /\ persist'.item = persist.item]_vars
    /\ [][persist'.writes # persist.writes =>
            /\ persist'.writes = persist.writes + 1
            /\ persist.unwritten >= 1
            /\ persist'.setItemValue = persist.lastValue]_vars
    /\ ((persist.unwritten > 0) ~> (persist.unwritten = 0 \/ ~persist.mounted))

\* C24 witness: a burst of MaxCalls calls, the last with another value than the
\* first, has been written with one setItem call, of the last value.
C24_Witness ==
    /\ persist.calls = MaxCalls /\ persist.writes = 1 /\ persist.timers = {}
    /\ persist.setItemValue = persist.lastValue /\ persist.item = 2
    /\ persist.storedValue = 2

\* A state the link is to carry whole: params in [0, 1], resolution 128, 256 or 512,
\* a palette name, stepsPerFrame in 1..10, a seed type.
ValidLinkState(state) ==
    /\ \A key \in DOMAIN state.params : state.params[key] >= 0 /\ state.params[key] <= One
    /\ state.resolution \in LinkResolutions
    /\ state.paletteName \in PaletteNames
    /\ state.stepsPerFrame \in 1..MaxSpeed
    /\ state.seedType \in SeedTypes

\* C25: urlParamsToState(stateToUrlParams(s)) has the params, resolution,
\* paletteName, stepsPerFrame and seedType of s, for every such state s.
C25_LinkRoundTrip ==
    (persist.parsed # <<>> /\ ValidLinkState(persist.state)) =>
       /\ persist.parsed[1].params = <<persist.state.params>>
       /\ persist.parsed[1].resolution = <<persist.state.resolution>>
       /\ persist.parsed[1].paletteName = <<persist.state.paletteName>>
       /\ persist.parsed[1].stepsPerFrame = <<persist.state.stepsPerFrame>>
       /\ persist.parsed[1].seedType = <<persist.state.seedType>>

\* C25 witness: a link opened whose state has a fractional du (written "0.25"), f = 0
\* (written "0"), the largest speed and the largest resolution.
C25_Witness ==
    /\ persist.parsed # <<>> /\ ValidLinkState(persist.state)
    /\ persist.state.params.du = Quarter /\ persist.state.params.f = 0
    /\ persist.state.stepsPerFrame = MaxSpeed /\ persist.state.resolution = 512
    /\ persist.url[1]["du"] = NumberToString(Quarter)
    /\ Len(persist.url[1]["du"]) > 2

\* One engine step in which every cell is computed with the four values of one
\* parameter set p.
StepWithOneSet(state, p, deltaT) ==
    [width |-> state.width, height |-> state.height,
     u |-> [idx \in 0..(state.width * state.height - 1) |-> StepU(state, p, deltaT, idx)],
     v |-> [idx \in 0..(state.width * state.height - 1) |-> StepV(state, p, deltaT, idx)]]

\* The fields n such steps can leave, the parameter set of each step being one of
\* sets.
RECURSIVE StepsWithSets(_, _, _, _)
StepsWithSets(state, sets, deltaT, n) ==
    IF n = 0 THEN {state}
    ELSE UNION {StepsWithSets(StepWithOneSet(state, p, deltaT), sets, deltaT, n - 1) : p \in sets}

\* C26: every step of a batch computes all cells with the four values paramsRef
\* holds when the batch starts, that is with the last update made before the step
\* (by updateParams, or by the effect for a new params prop); the update itself
\* steps nothing.
C26_OneParamSetPerStep ==
    /\ [][last'.op \in {"step", "animate"} =>
            stateRef' \in StepsWithSets(stateRef, {paramsRef}, rendered.dt, last'.steps)]_vars
    /\ [][paramsRef' # paramsRef =>
            /\ stateRef' = stateRef
            /\ last'.steps = 0
            /\ \/ last'.op = "updateParams" /\ \E newParams \in NewParams :
                                                  paramsRef' = Spread(paramsRef, newParams)
               \/ effectsPending /\ paramsRef' = rendered.params]_vars

\* C26 witness: step() has run after updateParams changed du alone, and the field is
\* the one the updated set gives from the created field, not the one the set of the
\* params prop gives.
C26_Witness ==
    /\ last.op = "step" /\ last.steps >= 1
    /\ paramsRef = [rendered.params EXCEPT !.du = One]
    /\ paramsRef # rendered.params
    /\ \E created \in createSimulationState(width, height, seedType) :
          /\ stateRef \in StepsWithSets(created, {paramsRef}, rendered.dt, last.steps)
          /\ stateRef \notin StepsWithSets(created, {rendered.params}, rendered.dt, last.steps)

\* The field after n single steps, each taken on the field the one before left.
RECURSIVE SingleSteps(_, _, _, _)
SingleSteps(state, p, deltaT, n) ==
    IF n = 0 THEN state
    ELSE stepSimulation(SingleSteps(state, p, deltaT, n - 1), p, deltaT)

\* C27: a frame or a step() with stepsPerFrameRef.current = n leaves the field n
\* single steps in sequence leave, and the field changes in no other transition:
\* every change of it is one whole batch of step() or of a frame.
C27_BatchSequential ==
    /\ [][last'.op \in {"step", "animate"} =>
            /\ last'.steps = stepsPerFrameRef
            /\ stateRef' = SingleSteps(stateRef, paramsRef, rendered.dt, stepsPerFrameRef)]_vars
    /\ [][stateRef' # stateRef => last'.op \in {"step", "animate"}]_vars

\* C27 witness: a frame has run a batch of the largest size on the created field,
\* and the field is not the one a single step leaves.
C27_Witness ==
    /\ last.op = "animate" /\ last.steps = MaxStepsPerFrame
    /\ \E created \in createSimulationState(width, height, seedType) :
          /\ stateRef = SingleSteps(created, paramsRef, rendered.dt, MaxStepsPerFrame)
          /\ stateRef # stepSimulation(created, paramsRef, rendered.dt)

\* C28: at most one frame is requested at any moment, whatever operations, visibility
\* changes and changes of the size, dt and speed props came before.
C28_OneFramePending == Cardinality(frames) <= 1

\* C28 witness: a frame has run on a Running loop and one frame is requested, after
\* the dt prop and the speed prop were changed and the document was hidden and shown.
C28_Witness ==
    /\ last.op = "animate" /\ isPlaying /\ Cardinality(frames) = 1
    /\ animationFrameRef # 0 /\ \A fr \in frames : fr.id = animationFrameRef
    /\ dt = Half /\ effectDeps.dt = Half
    /\ stepsPerFrameRef # stepsPerFrame
    /\ ~hidden /\ listener

\* C29 (as claimed): a field with u = 1 and v = 0 in every cell is left as it is by
\* every step, and a field with v = 0 in every cell keeps v = 0 in every cell,
\* whatever finite du, dv, f, k and dt are.
C29_RestFixedPoint ==
    /\ \A idx \in 0..(width * height - 1) : stateRef.v[idx] = 0
    /\ persist.rest => \A idx \in 0..(width * height - 1) : stateRef.u[idx] = One

\* C30: updateParams, updatePalette, render and exportPNG leave the field and
\* isPlaying as they are; updateParams steps nothing and renders nothing; and the
\* field changes only in a batch of steps (step(), a frame) and in reset().
C30_FieldWriters ==
    /\ [][last'.op \in {"updateParams", "updatePalette", "render", "exportPNG"} =>
            /\ stateRef' = stateRef
            /\ isPlaying' = isPlaying
            /\ last'.steps = 0]_vars
    /\ [][last'.op = "updateParams" => last'.renders = 0]_vars
    /\ [][stateRef' # stateRef => last'.op \in {"step", "animate", "reset"}]_vars

\* C30 witness: updateParams was called on a Running loop whose field a batch has
\* moved from the created one, with a new set of parameters.
C30_Witness ==
    /\ last.op = "updateParams" /\ isPlaying /\ frames # {}
    /\ paramsRef # rendered.params
    /\ stateRef \notin createSimulationState(width, height, seedType)

====
